---------------------------- MODULE Spec2Model ----------------------------
(***************************************************************************)
(* Novel-Image-Generator: the text parser (core/parser.py), the layout    *)
(* calculator (core/layout.py) and the render loop (core/renderer.py).    *)
(*                                                                         *)
(* A Python str is a sequence of one-character strings.  The module is    *)
(* kept in ASCII, so three characters of the program are written with a   *)
(* stand-in:  "{" is U+300C (opening corner bracket), "}" is U+300D       *)
(* (closing corner bracket) and "_" is U+3000 (ideographic space, which   *)
(* str.strip treats as whitespace and textwrap does not).                 *)
(* Optional[T] is a sequence of length 0 (None) or 1 (the value).         *)
(* In the glyph table of the renderer a character outside ASCII is        *)
(* written as the name of its code point ("U+30FC").                      *)
(***************************************************************************)
EXTENDS Integers, Sequences, FiniteSets, TLC

VARIABLES
    \* NovelTextParser.parse_lines
    lines, i, blocks, current_block, last_scene_number, pc,
    \* NovelTextParser.validate_text_structure: its result, once it was called
    warnings,
    \* NovelTextParser.generate_output_blocks (emitted_by: for each
    \* instruction, the index of the block that emitted it; history only)
    g, current_scene_number, output_blocks, emitted_by,
    \* renderer.render_novel_blocks (images: the scene numbers that have a
    \* background image in image_folder; files: the names written to
    \* output_folder; calls: one entry per loop iteration, history only;
    \* rendered: the render_* call of the latest iteration, if it made one:
    \* its arguments and what it did, history only)
    rpc, index, render_last_scene_number, errors, files, images, calls,
    run_success, rendered,
    \* ImageRenderer.draw_text_vertical: the (x, y, char) entries it is to
    \* draw, the draw.text calls it has made, and where it is
    to_draw, drawn, dpc,
    \* TextLayoutCalculator (one calculation: its arguments and results)
    \* (wp, all_lines: the loop of _wrap_text; para_of: for each line made,
    \* the index of the paragraph it was made of, history only)
    lpc, canvas, text, font_size, max_chars_per_line, text_block, layout,
    positions, wp, all_lines, para_of,
    \* adjust_bubble_positions: its argument, its adjusted_bubbles and where
    \* it is
    bubbles, adjusted_bubbles, apc,
    \* ImageRenderer.render_image_with_serifs (one call: its serifs and
    \* settings arguments, where it is, the index of the serif at hand, its
    \* return value; ops: the drawing operations it has made, raised_in: the
    \* steps of the call in which an exception was raised, both history only)
    spc, serif_list, settings, serif_k, ops, raised_in, serif_result,
    \* ImageRenderer.draw_text_horizontal: where it is, the index of the line
    \* at hand, its current_y (hcurrent_y) and the draw.text calls it has made
    hpc, hline, hcurrent_y, hdrawn,
    \* NovelImageGeneratorGUI: is_processing, the state of the widgets, where
    \* the UI thread is in _execute_generation, the callbacks given to
    \* root.after and not yet run, the worker threads started (workers), the
    \* requests made and those turned away (history only)
    is_processing, ui_enabled, upc, callbacks, workers, requests, refused

drawVars == <<to_draw, drawn, dpc>>
parserVars ==
    <<lines, i, blocks, current_block, last_scene_number, pc, warnings>>
genVars == <<g, current_scene_number, output_blocks, emitted_by>>
renderVars ==
    <<rpc, index, render_last_scene_number, errors, files, images, calls,
      run_success, rendered, drawVars>>
adjustVars == <<bubbles, adjusted_bubbles, apc>>
layoutVars ==
    <<lpc, canvas, text, font_size, max_chars_per_line, text_block, layout,
      positions, wp, all_lines, para_of, adjustVars>>
serifVars ==
    <<spc, serif_list, settings, serif_k, ops, raised_in, serif_result>>
horizVars == <<hpc, hline, hcurrent_y, hdrawn>>
guiVars ==
    <<is_processing, ui_enabled, upc, callbacks, workers, requests, refused>>
vars ==
    <<parserVars, genVars, renderVars, layoutVars, serifVars, horizVars,
      guiVars>>

----------------------------------------------------------------------------
(* Bounds of the model *)

\* presses of the button that calls _execute_generation
MaxRequests == 3
\* input lines of a parse (besides the ten-line scenario)
MaxLines == 3
\* blocks handed to generate_output_blocks directly
MaxBlocks == 3
\* instructions handed to render_novel_blocks
MaxInstructions == 5
\* characters of a text handed to the layout calculator
MaxTextLen == 4
\* the wrap widths tried are 1..MaxWrapWidth
MaxWrapWidth == 3

\* draw_text_vertical is given up to MaxGlyphs characters
MaxGlyphs == 2

----------------------------------------------------------------------------
(* Python values *)

None == <<>>
Some(x) == <<x>>
IsNone(o) == o = <<>>
Val(o) == o[1]

OQ == "{"
CQ == "}"
IDSP == "_"
NL == "\n"

\* the characters str.strip() removes (those that occur in the model)
PyWhitespace == {" ", NL, IDSP}

\* the sequences over S of length n at most
SeqsUpTo(S, n) == UNION {[1..k -> S] : k \in 0..n}

SetMin(S) == CHOOSE x \in S : \A y \in S : x <= y
SetMax(S) == CHOOSE x \in S : \A y \in S : y <= x

\* str.strip()
Strip(s) ==
    LET keep == {k \in 1..Len(s) : s[k] \notin PyWhitespace}
    IN  IF keep = {} THEN <<>> ELSE SubSeq(s, SetMin(keep), SetMax(keep))

\* str.lower() on the letters of the two tags
Lower(c) ==
    CASE c = "S" -> "s" [] c = "C" -> "c" [] c = "E" -> "e" [] c = "N" -> "n"
      [] c = "P" -> "p" [] c = "A" -> "a" [] c = "R" -> "r" [] OTHER -> c

\* s[p..] starts with the literal lit, ignoring case
HasPrefixAt(s, p, lit) ==
    /\ p + Len(lit) - 1 <= Len(s)
    /\ \A k \in 1..Len(lit) : Lower(s[p + k - 1]) = lit[k]

SceneOpen == <<"[", "s", "c", "e", "n", "e", ":">>
ParaTag == <<"[", "p", "a", "r", "a", "]">>

\* positions of "]" at or after p
ClosersFrom(s, p) == {k \in p..Len(s) : s[k] = "]"}

\* re: \[scene:([^\]]+)\]  (IGNORECASE) matches s starting at position p
SceneMatchAt(s, p) ==
    /\ HasPrefixAt(s, p, SceneOpen)
    /\ ClosersFrom(s, p + 7) # {}
    /\ SetMin(ClosersFrom(s, p + 7)) >= p + 8

\* group(1) of that match
SceneGroupAt(s, p) == SubSeq(s, p + 7, SetMin(ClosersFrom(s, p + 7)) - 1)

\* self.scene_pattern.match(line)
scene_pattern_match(line) == SceneMatchAt(line, 1)

\* self.para_pattern.match(line)
para_pattern_match(line) == HasPrefixAt(line, 1, ParaTag)

\* utils.extract_scene_number: re.search, the leftmost match
extract_scene_number(scene_tag) ==
    LET starts == {p \in 1..Len(scene_tag) : SceneMatchAt(scene_tag, p)}
    IN  IF starts = {} THEN None
        ELSE Some(SceneGroupAt(scene_tag, SetMin(starts)))

\* utils.is_empty_line
is_empty_line(line) == Strip(line) = <<>>

\* re.findall of {([^}]*)} from position p on: the spans between an opening
\* bracket and the first closing bracket after it, left to right
RECURSIVE FindAllFrom(_, _)
FindAllFrom(s, p) ==
    LET opens == {k \in p..Len(s) : s[k] = OQ}
    IN  IF opens = {} THEN <<>>
        ELSE LET o == SetMin(opens)
                 closes == {k \in (o + 1)..Len(s) : s[k] = CQ}
             IN  IF closes = {} THEN <<>>
                 ELSE LET c == SetMin(closes)
                      IN  <<SubSeq(s, o + 1, c - 1)>> \o FindAllFrom(s, c + 1)

\* [serif.strip() for serif in matches if serif.strip()]
RECURSIVE StripNonEmpty(_)
StripNonEmpty(ms) ==
    IF ms = <<>> THEN <<>>
    ELSE IF Strip(Head(ms)) = <<>> THEN StripNonEmpty(Tail(ms))
    ELSE <<Strip(Head(ms))>> \o StripNonEmpty(Tail(ms))

\* utils.parse_serif_text
parse_serif_text(t) == StripNonEmpty(FindAllFrom(t, 1))

----------------------------------------------------------------------------
(* core/parser.py *)

MAX_SERIFS_PER_SCENE == 2

SCENE_ONLY == "scene_only"
SCENE_WITH_SERIFS == "scene_with_serifs"
NARRATION == "narration"
PAGE_BREAK == "page_break"

SerifData(t, position, order) ==
    [text |-> t, position |-> position, order |-> order]

SceneBlock(bt, sn, ss, nt, eas, rl) ==
    [block_type |-> bt, scene_number |-> sn, serifs |-> ss,
     narration_text |-> nt, is_empty_after_scene |-> eas, raw_lines |-> rl]

\* _add_serifs_to_block without the check of the cap
RECURSIVE add_serifs_to_block_NoCap(_, _)
add_serifs_to_block_NoCap(block, serifs) ==
    IF serifs = <<>> THEN block
    ELSE add_serifs_to_block_NoCap(
             [block EXCEPT !.serifs =
                 Append(@, SerifData(Head(serifs),
                                     IF Len(block.serifs) = 0
                                     THEN "top_right" ELSE "bottom_left",
                                     Len(block.serifs) + 1))],
             Tail(serifs))

\* NovelTextParser._add_serifs_to_block
RECURSIVE add_serifs_to_block(_, _)
add_serifs_to_block(block, serifs) ==
    IF serifs = <<>> THEN block
    ELSE IF Len(block.serifs) >= MAX_SERIFS_PER_SCENE THEN block
    ELSE LET position == IF Len(block.serifs) = 0 THEN "top_right"
                         ELSE "bottom_left"
             order == Len(block.serifs) + 1
             serif_data == SerifData(Head(serifs), position, order)
         IN  add_serifs_to_block(
                 [block EXCEPT !.serifs = Append(@, serif_data)],
                 Tail(serifs))

\* _finalize_block_types without its scene-only case: a scene block that has
\* no serifs is always taken for narration
FinalizeBlock_NoSceneOnly(block) ==
    IF block.block_type = PAGE_BREAK THEN block
    ELSE IF block.serifs # <<>>
    THEN [block EXCEPT !.block_type = SCENE_WITH_SERIFS]
    ELSE [block EXCEPT !.block_type = NARRATION]

\* _finalize_block_types with a scene-only test that does not look at the
\* serifs
FinalizeBlock_SceneOnlyDespiteSerifs(block) ==
    IF block.block_type = PAGE_BREAK THEN block
    ELSE IF /\ ~IsNone(block.scene_number)
            /\ block.is_empty_after_scene
            /\ Strip(block.narration_text) = <<>>
    THEN [block EXCEPT !.block_type = SCENE_ONLY]
    ELSE IF block.serifs # <<>>
    THEN [block EXCEPT !.block_type = SCENE_WITH_SERIFS]
    ELSE [block EXCEPT !.block_type = NARRATION]

\* _finalize_block_types if the caption of a scene block came before its
\* serifs: a scene block that has caption text is taken for narration
FinalizeBlock_CaptionSuppressesSerifs(block) ==
    IF block.block_type = PAGE_BREAK THEN block
    ELSE IF ~IsNone(block.scene_number)
    THEN IF /\ block.is_empty_after_scene
            /\ block.serifs = <<>>
            /\ Strip(block.narration_text) = <<>>
         THEN [block EXCEPT !.block_type = SCENE_ONLY]
         ELSE IF block.serifs # <<>> /\ Strip(block.narration_text) = <<>>
         THEN [block EXCEPT !.block_type = SCENE_WITH_SERIFS]
         ELSE [block EXCEPT !.block_type = NARRATION]
    ELSE IF block.serifs # <<>>
         THEN [block EXCEPT !.block_type = SCENE_WITH_SERIFS]
         ELSE [block EXCEPT !.block_type = NARRATION]

\* NovelTextParser._finalize_block_types, one block
FinalizeBlock(block) ==
    IF block.block_type = PAGE_BREAK THEN block
    ELSE IF ~IsNone(block.scene_number)
    THEN IF /\ block.is_empty_after_scene
            /\ block.serifs = <<>>
            /\ Strip(block.narration_text) = <<>>
         THEN [block EXCEPT !.block_type = SCENE_ONLY]
         ELSE IF block.serifs # <<>>
         THEN [block EXCEPT !.block_type = SCENE_WITH_SERIFS]
         ELSE [block EXCEPT !.block_type = NARRATION]
    ELSE IF block.serifs # <<>>
         THEN [block EXCEPT !.block_type = SCENE_WITH_SERIFS]
         ELSE [block EXCEPT !.block_type = NARRATION]

\* NovelTextParser._finalize_block_types
finalize_block_types(bs) == [k \in 1..Len(bs) |-> FinalizeBlock(bs[k])]

\* blocks with the in-progress block appended, if there is one
WithCurrent(bs, cur) == IF IsNone(cur) THEN bs ELSE Append(bs, Val(cur))

\* the line the loop looks at: lines[i].strip()   (i is 0-based)
CurLine == Strip(lines[i + 1])

\* the branch of the if / elif chain of the loop body a line takes
Branch(line) ==
    IF scene_pattern_match(line) THEN "scene"
    ELSE IF para_pattern_match(line) THEN "para"
    ELSE IF is_empty_line(line) THEN "empty"
    ELSE "text"

\* parse_lines, the [scene:XXX] branch
ParseSceneTag ==
    /\ pc = "scan"
    /\ i < Len(lines)
    /\ \E line \in {CurLine}, skip \in {i + 1 < Len(lines)
                                        /\ is_empty_line(lines[i + 2])} :
           /\ Branch(line) = "scene"
           /\ \E scene_number \in {extract_scene_number(line)} :
                  /\ blocks' = WithCurrent(blocks, current_block)
                  /\ last_scene_number' = scene_number
                  /\ current_block' =
                         Some(SceneBlock(SCENE_ONLY, scene_number, <<>>, <<>>,
                                         skip,
                                         IF skip THEN <<line, lines[i + 2]>>
                                         ELSE <<line>>))
                  /\ i' = IF skip THEN i + 2 ELSE i + 1
    /\ UNCHANGED <<serifVars, horizVars, guiVars>>
    /\ UNCHANGED <<lines, pc, warnings, genVars, renderVars, layoutVars>>

\* parse_lines, the [para] branch
ParseParaTag ==
    /\ pc = "scan"
    /\ i < Len(lines)
    /\ \E line \in {CurLine} :
           /\ Branch(line) = "para"
           /\ blocks' = Append(WithCurrent(blocks, current_block),
                               SceneBlock(PAGE_BREAK, None, <<>>, <<>>, FALSE,
                                          <<line>>))
    /\ current_block' = None
    /\ i' = i + 1
    /\ UNCHANGED <<serifVars, horizVars, guiVars>>
    /\ UNCHANGED <<lines, last_scene_number, pc, warnings, genVars, renderVars,
                   layoutVars>>

\* the blank-line branch if it left out "i += 1"
ParseEmptyLine_NoAdvance ==
    /\ pc = "scan"
    /\ i < Len(lines)
    /\ \E line \in {CurLine} :
           /\ Branch(line) = "empty"
           /\ current_block' =
                  IF IsNone(current_block) THEN None
                  ELSE Some([Val(current_block) EXCEPT
                                 !.raw_lines = Append(@, line)])
    /\ UNCHANGED <<serifVars, horizVars, guiVars>>
    /\ UNCHANGED <<lines, i, blocks, last_scene_number, pc, warnings, genVars,
                   renderVars, layoutVars>>

\* parse_lines, the blank-line branch
ParseEmptyLine ==
    /\ pc = "scan"
    /\ i < Len(lines)
    /\ \E line \in {CurLine} :
           /\ Branch(line) = "empty"
           /\ current_block' =
                  IF IsNone(current_block) THEN None
                  ELSE Some([Val(current_block) EXCEPT
                                 !.raw_lines = Append(@, line)])
    /\ i' = i + 1
    /\ UNCHANGED <<serifVars, horizVars, guiVars>>
    /\ UNCHANGED <<lines, blocks, last_scene_number, pc, warnings, genVars,
                   renderVars, layoutVars>>

\* the text-line branch if it appended the line to the caption text also
\* when the line holds serifs
TextLineBlock_CaptionAlways(cur, line, serifs) ==
    LET opened == IF IsNone(cur)
                  THEN SceneBlock(NARRATION, None, <<>>, <<>>, FALSE, <<>>)
                  ELSE Val(cur)
        b0 == [opened EXCEPT
                   !.raw_lines = Append(@, line),
                   !.narration_text =
                       IF @ # <<>> THEN @ \o <<NL>> \o line ELSE line]
    IN  IF serifs # <<>>
        THEN [add_serifs_to_block(b0, serifs) EXCEPT
                  !.block_type = SCENE_WITH_SERIFS]
        ELSE b0

\* the text-line branch applied to the block in progress, serifs being
\* parse_serif_text(line)
TextLineBlock(cur, line, serifs) ==
    LET opened == IF IsNone(cur)
                  THEN SceneBlock(NARRATION, None, <<>>, <<>>, FALSE, <<>>)
                  ELSE Val(cur)
        b0 == [opened EXCEPT !.raw_lines = Append(@, line)]
    IN  IF serifs # <<>>
        THEN LET b1 == add_serifs_to_block(b0, serifs)
             IN  IF ~IsNone(b1.scene_number)
                 THEN IF /\ b1.block_type = NARRATION
                         /\ Strip(b1.narration_text) = <<>>
                      THEN [b1 EXCEPT !.block_type = SCENE_WITH_SERIFS]
                      ELSE b1
                 ELSE [b1 EXCEPT !.block_type = SCENE_WITH_SERIFS]
        ELSE [b0 EXCEPT !.narration_text =
                  IF @ # <<>> THEN @ \o <<NL>> \o line ELSE line]

\* parse_lines, the text-line branch
ParseTextLine ==
    /\ pc = "scan"
    /\ i < Len(lines)
    /\ \E line \in {CurLine} :
           /\ Branch(line) = "text"
           /\ \E serifs \in {parse_serif_text(line)} :
                  current_block' =
                      Some(TextLineBlock(current_block, line, serifs))
    /\ i' = i + 1
    /\ UNCHANGED <<serifVars, horizVars, guiVars>>
    /\ UNCHANGED <<lines, blocks, last_scene_number, pc, warnings, genVars,
                   renderVars, layoutVars>>

\* parse_lines after the loop: the last block is appended and the block
\* types are finalized
ParseFinish ==
    /\ pc = "scan"
    /\ i >= Len(lines)
    /\ blocks' = finalize_block_types(WithCurrent(blocks, current_block))
    /\ pc' = "generate"
    /\ UNCHANGED <<serifVars, horizVars, guiVars>>
    /\ UNCHANGED <<lines, i, current_block, last_scene_number, warnings,
                   genVars, renderVars, layoutVars>>

----------------------------------------------------------------------------
(* NovelTextParser.validate_text_structure *)

\* a warning: which of the three messages it is and what the message names
\* (the duplicate message names the scene number, the other two the block)
Warning(kind, block_no, scene_number, count) ==
    [kind |-> kind, block |-> block_no, scene_number |-> scene_number,
     count |-> count]

\* the warnings for the block at index k (1-based; the message says k as
\* i + 1), seen being the scene numbers of the blocks before it
BlockWarnings(block, k, seen) ==
    (IF ~IsNone(block.scene_number) /\ Val(block.scene_number) \in seen
     THEN <<Warning("duplicate", 0, block.scene_number, 0)>> ELSE <<>>)
    \o (IF Len(block.serifs) > MAX_SERIFS_PER_SCENE
        THEN <<Warning("too_many_serifs", k, None, Len(block.serifs))>>
        ELSE <<>>)
    \o SelectSeq([n \in 1..Len(block.serifs) |->
                     IF Strip(block.serifs[n].text) = <<>>
                     THEN Warning("empty_serif", k, None, 0)
                     ELSE Warning("none", k, None, 0)],
                 LAMBDA w : w.kind = "empty_serif")

\* the loop of validate_text_structure if it remembered the scene number of
\* the previous block only
RECURSIVE ValidateFrom_PreviousOnly(_, _, _)
ValidateFrom_PreviousOnly(bs, k, seen) ==
    IF k > Len(bs) THEN <<>>
    ELSE BlockWarnings(bs[k], k, seen)
         \o ValidateFrom_PreviousOnly(bs, k + 1,
                 IF IsNone(bs[k].scene_number) THEN {}
                 ELSE {Val(bs[k].scene_number)})

\* validate_text_structure: the loop from block k on
RECURSIVE ValidateFrom(_, _, _)
ValidateFrom(bs, k, seen) ==
    IF k > Len(bs) THEN <<>>
    ELSE BlockWarnings(bs[k], k, seen)
         \o ValidateFrom(bs, k + 1,
                         IF IsNone(bs[k].scene_number) THEN seen
                         ELSE seen \cup {Val(bs[k].scene_number)})

\* NovelTextParser.validate_text_structure
validate_text_structure(bs) == ValidateFrom(bs, 1, {})

\* a call of validate_text_structure on the blocks parse_lines returned
Validate ==
    /\ pc \in {"generate", "done"}
    /\ IsNone(warnings)
    /\ warnings' = Some(validate_text_structure(blocks))
    /\ UNCHANGED <<serifVars, horizVars, guiVars>>
    /\ UNCHANGED <<lines, i, blocks, current_block, last_scene_number, pc,
                   genVars, renderVars, layoutVars>>

----------------------------------------------------------------------------
(* NovelTextParser.generate_output_blocks *)

Instruction(type, scene_number, serifs, narration) ==
    [type |-> type, scene_number |-> scene_number, serifs |-> serifs,
     narration |-> narration]

\* the dicts of a block if the narration of a block with serifs were tested
\* with "if block.narration_text:", without strip()
BlockOutput_CaptionNotStripped(block, csn) ==
    IF block.block_type = SCENE_ONLY
    THEN <<Instruction("image_only", csn, <<>>, <<>>)>>
    ELSE IF block.block_type = SCENE_WITH_SERIFS
    THEN <<Instruction("image_with_serifs", csn, block.serifs, <<>>)>>
         \o (IF block.narration_text # <<>>
             THEN <<Instruction("narration", csn, <<>>,
                                Strip(block.narration_text))>>
             ELSE <<>>)
    ELSE IF block.block_type = NARRATION
    THEN <<Instruction("narration", csn, <<>>, Strip(block.narration_text))>>
    ELSE <<>>

\* the dicts one block appends to output_blocks, csn being the current
\* scene number after the block's own number was taken over
BlockOutput(block, csn) ==
    IF block.block_type = SCENE_ONLY
    THEN <<Instruction("image_only", csn, <<>>, <<>>)>>
    ELSE IF block.block_type = SCENE_WITH_SERIFS
    THEN <<Instruction("image_with_serifs", csn, block.serifs, <<>>)>>
         \o (IF Strip(block.narration_text) # <<>>
             THEN <<Instruction("narration", csn, <<>>,
                                Strip(block.narration_text))>>
             ELSE <<>>)
    ELSE IF block.block_type = NARRATION
    THEN <<Instruction("narration", csn, <<>>, Strip(block.narration_text))>>
    ELSE <<>>

\* the scene number without carry-forward: only the block's own number
NextSceneNumber_OwnOnly(block, csn) == block.scene_number

\* the current scene number after looking at a block that is no page break
NextSceneNumber(block, csn) ==
    IF ~IsNone(block.scene_number) THEN block.scene_number ELSE csn

\* one iteration of the loop over blocks   (g blocks are done)
GenerateStep ==
    /\ pc = "generate"
    /\ g < Len(blocks)
    /\ LET block == blocks[g + 1]
       IN  IF block.block_type = PAGE_BREAK
           THEN UNCHANGED <<current_scene_number, output_blocks, emitted_by>>
           ELSE LET csn == NextSceneNumber(block, current_scene_number)
                    out == BlockOutput(block, csn)
                IN  /\ current_scene_number' = csn
                    /\ output_blocks' = output_blocks \o out
                    /\ emitted_by' =
                           emitted_by \o [k \in 1..Len(out) |-> g + 1]
    /\ g' = g + 1
    /\ UNCHANGED <<serifVars, horizVars, guiVars>>
    /\ UNCHANGED <<parserVars, renderVars, layoutVars>>

\* return output_blocks
GenerateReturn ==
    /\ pc = "generate"
    /\ g >= Len(blocks)
    /\ pc' = "done"
    /\ UNCHANGED <<serifVars, horizVars, guiVars>>
    /\ UNCHANGED <<lines, i, blocks, current_block, last_scene_number,
                   warnings, genVars, renderVars, layoutVars>>


----------------------------------------------------------------------------
(* core/renderer.py: render_novel_blocks and the three render_* methods *)

\* Python truth value of an Optional[str]: None and "" are false
Truthy(o) == ~IsNone(o) /\ Val(o) # <<>>

\* f"{index:03d}", as its sequence of decimal digits
RECURSIVE Digits(_)
Digits(n) == IF n < 10 THEN <<n>> ELSE Append(Digits(n \div 10), n % 10)

ZeroPad3(n) ==
    LET d == Digits(n)
    IN  IF Len(d) >= 3 THEN d ELSE [k \in 1..(3 - Len(d)) |-> 0] \o d

\* utils.generate_output_filename; base_name and extension are the same for
\* every file of a run, so a name is told by its number part
generate_output_filename(idx) == ZeroPad3(idx)

\* utils.validate_image_path: the image found for a scene number, if any
\* (no image is ever named "None", the text a missing number is looked up by)
validate_image_path(scene_number) ==
    IF ~IsNone(scene_number) /\ Val(scene_number) \in images
    THEN scene_number ELSE None

\* ImageRenderer.create_base_image: the background image resized to the
\* canvas, or the opaque white canvas when there is no path
create_base_image(bg_path) == IF IsNone(bg_path) THEN "white" ELSE "image"

\* What a render_* call did: its return value, the file it saved, if any,
\* and the base image it made ("none": it made none).
\* fault: an exception is raised inside the method's try block (the layout
\* calculation, the output path or the save), before a file exists.
RenderResult(success, saved, base) ==
    [success |-> success, saved |-> saved, base |-> base]

\* ImageRenderer.render_image_only
render_image_only(scene_number, idx, fault) ==
    IF IsNone(validate_image_path(scene_number))
    THEN RenderResult(FALSE, {}, "none")
    ELSE IF fault
    THEN RenderResult(FALSE, {},
                      create_base_image(validate_image_path(scene_number)))
    ELSE RenderResult(TRUE, {generate_output_filename(idx)},
                      create_base_image(validate_image_path(scene_number)))

\* render_image_with_serifs if it gave up without an image, as
\* render_image_only does
render_image_with_serifs_NoFallback(scene_number, idx, fault) ==
    IF IsNone(validate_image_path(scene_number))
    THEN RenderResult(FALSE, {}, "none")
    ELSE IF fault
    THEN RenderResult(FALSE, {},
                      create_base_image(validate_image_path(scene_number)))
    ELSE RenderResult(TRUE, {generate_output_filename(idx)},
                      create_base_image(validate_image_path(scene_number)))

\* ImageRenderer.render_image_with_serifs: without a scene number or an
\* image for it the base image is the white canvas
render_image_with_serifs(scene_number, idx, fault) ==
    IF fault
    THEN RenderResult(FALSE, {},
                      create_base_image(validate_image_path(scene_number)))
    ELSE RenderResult(TRUE, {generate_output_filename(idx)},
                      create_base_image(validate_image_path(scene_number)))

\* ImageRenderer.render_narration
render_narration(scene_number, idx, fault) ==
    IF fault
    THEN RenderResult(FALSE, {},
                      create_base_image(validate_image_path(scene_number)))
    ELSE RenderResult(TRUE, {generate_output_filename(idx)},
                      create_base_image(validate_image_path(scene_number)))

\* the record of a render_* call: which method, its scene_number argument,
\* whether something in it raised, and its result
RenderCall(type, scene_number, fault, r) ==
    [type |-> type, scene_number |-> scene_number, fault |-> fault,
     result |-> r]

\* an entry of the errors list: the block number in its text and which of
\* the three messages it is
ErrorEntry(idx, what) == [index |-> idx, what |-> what]

\* the index of the next iteration if the except path did not count
NextIndex_NotOnRaise(idx, raised) == IF raised THEN idx ELSE idx + 1

\* the index of the next iteration: index += 1, on both paths
NextIndex(idx, raised) == idx + 1

\* the entries one iteration appends for a block of a type it knows, given
\* the render_* return value
FailureEntries(idx, success) ==
    IF ~success THEN <<ErrorEntry(idx, "failed")>> ELSE <<>>

\* the entries one iteration appends for a block of an unknown type
UnknownTypeEntries(idx) ==
    <<ErrorEntry(idx, "unknown_type")>> \o FailureEntries(idx, FALSE)

\* A block dict: type is None when the dict has no "type" key; payload says
\* whether the key its branch reads ("serifs", "narration") is there.
OutputDicts ==
    [type : {None, Some("image_only"), Some("image_with_serifs"),
             Some("narration"), Some("bogus")},
     scene_number : {None, Some(<<"1">>), Some(<<"2">>)},
     payload : BOOLEAN]

\* block["type"], block["serifs"] or block["narration"] raises KeyError
RaisesKeyError(block) ==
    \/ IsNone(block.type)
    \/ /\ Val(block.type) \in {"image_with_serifs", "narration"}
       /\ ~block.payload

\* render_novel_blocks: one iteration of the loop, for the next block of the
\* list
RenderBlock ==
    /\ rpc = "loop"
    /\ Len(calls) < MaxInstructions
    /\ \E block \in OutputDicts, fault \in BOOLEAN :
          LET scene_number == block.scene_number
              last == IF ~IsNone(block.type) /\ Truthy(scene_number)
                      THEN scene_number ELSE render_last_scene_number
              current_scene == IF Truthy(scene_number) THEN scene_number
                               ELSE last
          IN  /\ render_last_scene_number' = last
              /\ IF RaisesKeyError(block)
                 THEN /\ errors' = Append(errors, ErrorEntry(index, "exception"))
                      /\ files' = files
                      /\ calls' = Append(calls, [index |-> index,
                                                 outcome |-> "raised"])
                      /\ rendered' = None
                      /\ index' = NextIndex(index, TRUE)
                 ELSE IF Val(block.type) \in
                             {"image_only", "image_with_serifs", "narration"}
                 THEN LET r == IF Val(block.type) = "image_only"
                               THEN render_image_only(current_scene, index,
                                                      fault)
                               ELSE IF Val(block.type) = "image_with_serifs"
                               THEN render_image_with_serifs(current_scene,
                                                             index, fault)
                               ELSE render_narration(current_scene, index,
                                                     fault)
                      IN  /\ errors' = errors \o FailureEntries(index, r.success)
                          /\ files' = files \cup r.saved
                          /\ calls' = Append(calls,
                                 [index |-> index,
                                  outcome |-> IF r.success THEN "ok"
                                              ELSE "false"])
                          /\ rendered' = Some(RenderCall(Val(block.type),
                                                         current_scene,
                                                         fault, r))
                          /\ index' = NextIndex(index, FALSE)
                 ELSE /\ errors' = errors \o UnknownTypeEntries(index)
                      /\ files' = files
                      /\ calls' = Append(calls, [index |-> index,
                                                 outcome |-> "unknown"])
                      /\ rendered' = None
                      /\ index' = NextIndex(index, FALSE)
    /\ UNCHANGED <<serifVars, horizVars, guiVars>>
    /\ UNCHANGED <<rpc, images, run_success, drawVars, parserVars, genVars,
                   layoutVars>>

\* render_novel_blocks: return len(errors) == 0, errors
RenderReturn ==
    /\ rpc = "loop"
    /\ spc = "idle"
    /\ run_success' = Some(Len(errors) = 0)
    /\ rpc' = "done"
    /\ UNCHANGED <<serifVars, horizVars, guiVars>>
    /\ UNCHANGED <<index, render_last_scene_number, errors, files, images,
                   calls, rendered, drawVars, parserVars, genVars, layoutVars>>

----------------------------------------------------------------------------
(* core/renderer.py: render_image_with_serifs, step by step.  A color of   *)
(* the settings is told by whether hex_to_rgba accepts it (TRUE) or raises  *)
(* ValueError (FALSE).  An operation on the image or the file system may    *)
(* raise whatever its arguments (fault).                                    *)

\* an operation on the image or the output file: which one and, for the
\* drawing of a serif, the index of the serif in the list (else 0)
DrawOp(op, entry) == [op |-> op, entry |-> entry]

\* render_novel_blocks: the iteration of the loop for an image_with_serifs
\* block calls render_image_with_serifs
SerifsCall ==
    /\ rpc = "loop"
    /\ spc = "idle"
    /\ Len(calls) < MaxInstructions
    /\ serif_list' \in SeqsUpTo({<<"a">>, <<" ">>}, MAX_SERIFS_PER_SCENE)
    /\ settings' \in [serif_bg_color : BOOLEAN, serif_border_color : BOOLEAN,
                      serif_font_color : BOOLEAN]
    /\ serif_k' = 0
    /\ ops' = <<>>
    /\ raised_in' = {}
    /\ serif_result' = None
    /\ spc' = "background"
    /\ UNCHANGED <<renderVars, parserVars, genVars, layoutVars, horizVars,
                   guiVars>>

\* validate_image_path, create_base_image, load_font
SerifsBackground ==
    /\ spc = "background"
    /\ \E fault \in BOOLEAN :
           IF fault
           THEN /\ raised_in' = raised_in \cup {"background"}
                /\ spc' = "except"
                /\ ops' = ops
           ELSE /\ ops' = Append(ops, DrawOp("background", 0))
                /\ spc' = "entry"
                /\ raised_in' = raised_in
    /\ UNCHANGED <<serif_list, settings, serif_k, serif_result, renderVars,
                   parserVars, genVars, layoutVars, horizVars, guiVars>>

\* for serif in serifs: the end of the list, a blank text (continue), or
\* calculate_serif_bubble_layout for the serif
SerifsEntry ==
    /\ spc = "entry"
    /\ IF serif_k >= Len(serif_list)
       THEN /\ spc' = "flatten"
            /\ UNCHANGED <<serif_k, raised_in>>
       ELSE /\ serif_k' = serif_k + 1
            /\ IF Strip(serif_list[serif_k + 1]) = <<>>
               THEN UNCHANGED <<spc, raised_in>>
               ELSE \E fault \in BOOLEAN :
                        IF fault
                        THEN /\ raised_in' = raised_in \cup {"layout"}
                             /\ spc' = "except"
                        ELSE /\ raised_in' = raised_in
                             /\ spc' = "fill"
    /\ UNCHANGED <<serif_list, settings, ops, serif_result, renderVars,
                   parserVars, genVars, layoutVars, horizVars, guiVars>>

\* draw_bubble_background: the two colors are converted, then the filled
\* rectangle is drawn; an exception is caught and the image returned
SerifsFill ==
    /\ spc = "fill"
    /\ \E fault \in BOOLEAN :
           IF ~settings.serif_bg_color \/ ~settings.serif_border_color \/ fault
           THEN /\ raised_in' = raised_in \cup {"fill"}
                /\ spc' = "glyphs"
                /\ ops' = ops
           ELSE /\ ops' = Append(ops, DrawOp("fill", serif_k))
                /\ spc' = "border"
                /\ raised_in' = raised_in
    /\ UNCHANGED <<serif_list, settings, serif_k, serif_result, renderVars,
                   parserVars, genVars, layoutVars, horizVars, guiVars>>

\* draw_bubble_background: the outline is drawn; an exception is caught and
\* the image returned
SerifsBorder ==
    /\ spc = "border"
    /\ \E fault \in BOOLEAN :
           IF fault
           THEN /\ raised_in' = raised_in \cup {"border"}
                /\ ops' = ops
           ELSE /\ ops' = Append(ops, DrawOp("border", serif_k))
                /\ raised_in' = raised_in
    /\ spc' = "glyphs"
    /\ UNCHANGED <<serif_list, settings, serif_k, serif_result, renderVars,
                   parserVars, genVars, layoutVars, horizVars, guiVars>>

\* draw_text_vertical if the file were written after the glyphs of every
\* serif
SerifsGlyphs_SaveEachEntry ==
    /\ spc = "glyphs"
    /\ ops' = ops \o <<DrawOp("glyphs", serif_k), DrawOp("save", 0)>>
    /\ spc' = "entry"
    /\ UNCHANGED <<serif_list, settings, serif_k, raised_in, serif_result,
                   renderVars, parserVars, genVars, layoutVars, horizVars,
                   guiVars>>

\* draw_text_vertical: the color is converted, then the characters are
\* drawn; an exception is caught and the image returned, with the
\* characters drawn before it, if any
SerifsGlyphs ==
    /\ spc = "glyphs"
    /\ \E fault \in BOOLEAN, some \in BOOLEAN :
           IF ~settings.serif_font_color \/ fault
           THEN /\ raised_in' = raised_in \cup {"glyphs"}
                /\ ops' = IF settings.serif_font_color /\ some
                          THEN Append(ops, DrawOp("glyphs", serif_k))
                          ELSE ops
           ELSE /\ ops' = Append(ops, DrawOp("glyphs", serif_k))
                /\ raised_in' = raised_in
    /\ spc' = "entry"
    /\ UNCHANGED <<serif_list, settings, serif_k, serif_result, renderVars,
                   parserVars, genVars, layoutVars, horizVars, guiVars>>

\* _convert_to_rgb
SerifsFlatten ==
    /\ spc = "flatten"
    /\ \E fault \in BOOLEAN :
           IF fault
           THEN /\ raised_in' = raised_in \cup {"flatten"}
                /\ spc' = "except"
                /\ ops' = ops
           ELSE /\ ops' = Append(ops, DrawOp("flatten", 0))
                /\ spc' = "save"
                /\ raised_in' = raised_in
    /\ UNCHANGED <<serif_list, settings, serif_k, serif_result, renderVars,
                   parserVars, genVars, layoutVars, horizVars, guiVars>>

\* _generate_output_path, rgb_image.save, return True
SerifsSave ==
    /\ spc = "save"
    /\ \E fault \in BOOLEAN :
           IF fault
           THEN /\ raised_in' = raised_in \cup {"save"}
                /\ spc' = "except"
                /\ UNCHANGED <<ops, files, serif_result>>
           ELSE /\ ops' = Append(ops, DrawOp("save", 0))
                /\ files' = files \cup {generate_output_filename(index)}
                /\ serif_result' = Some(TRUE)
                /\ spc' = "return"
                /\ raised_in' = raised_in
    /\ UNCHANGED <<serif_list, settings, serif_k, rpc, index,
                   render_last_scene_number, errors, images, calls,
                   run_success, rendered, drawVars, parserVars, genVars,
                   layoutVars, horizVars, guiVars>>

\* except Exception: return False
SerifsExcept ==
    /\ spc = "except"
    /\ serif_result' = Some(FALSE)
    /\ spc' = "return"
    /\ UNCHANGED <<serif_list, settings, serif_k, ops, raised_in, renderVars,
                   parserVars, genVars, layoutVars, horizVars, guiVars>>

\* render_novel_blocks: the rest of the iteration, with the value
\* render_image_with_serifs returned
SerifsReturn ==
    /\ spc = "return"
    /\ errors' = errors \o FailureEntries(index, Val(serif_result))
    /\ calls' = Append(calls, [index |-> index,
                               outcome |-> IF Val(serif_result) THEN "ok"
                                           ELSE "false"])
    /\ index' = NextIndex(index, FALSE)
    /\ spc' = "idle"
    /\ UNCHANGED <<serif_list, settings, serif_k, ops, raised_in,
                   serif_result, rpc, render_last_scene_number, files, images,
                   run_success, rendered, drawVars, parserVars, genVars,
                   layoutVars, horizVars, guiVars>>

----------------------------------------------------------------------------
(* core/renderer.py: draw_text_horizontal *)

\* the x of a line: line_x of the loop body, by layout.alignment.value
line_x(lay, line) ==
    LET line_width == Len(line) * lay.text_block.char_width
    IN  IF lay.alignment = "center"
        THEN LET x == lay.text_x + (lay.bg_width - line_width) \div 2
                          - lay.text_x
             IN  IF lay.text_x > x THEN lay.text_x ELSE x
        ELSE IF lay.alignment = "right"
        THEN lay.bg_x + lay.bg_width - line_width - 30
        ELSE lay.text_x

\* a draw.text call: its position and text, and the index of the line in
\* text_block.lines (history only)
LineDraw(x, y, line, row) == [x |-> x, y |-> y, line |-> line, row |-> row]

\* draw_text_horizontal on the layout calculate_narration_layout returned:
\* the color is converted (color_ok: hex_to_rgba accepts it; else the
\* exception is caught and the image returned), current_y = layout.text_y
DrawHorizontalCall ==
    /\ lpc = "layout"
    /\ Val(layout).kind = "narration"
    /\ hpc = "idle"
    /\ \E color_ok \in BOOLEAN :
           hpc' = IF color_ok THEN "draw" ELSE "returned"
    /\ hline' = 0
    /\ hcurrent_y' = Val(layout).text_y
    /\ hdrawn' = <<>>
    /\ UNCHANGED <<parserVars, genVars, renderVars, layoutVars, serifVars,
                   guiVars>>

\* draw_text_horizontal: one iteration of the loop over text_block.lines
\* (fault: draw.text raises, the exception is caught and the image returned)
DrawHorizontalStep ==
    /\ hpc = "draw"
    /\ hline < Len(Val(layout).text_block.lines)
    /\ \E line \in {Val(layout).text_block.lines[hline + 1]} :
           IF Strip(line) # <<>>
           THEN \E fault \in BOOLEAN :
                    IF fault
                    THEN /\ hpc' = "returned"
                         /\ UNCHANGED <<hline, hcurrent_y, hdrawn>>
                    ELSE /\ hdrawn' = Append(hdrawn,
                                LineDraw(line_x(Val(layout), line),
                                         hcurrent_y, line, hline))
                         /\ hcurrent_y' = hcurrent_y
                                + Val(layout).text_block.line_height
                         /\ hline' = hline + 1
                         /\ hpc' = hpc
           ELSE /\ hcurrent_y' = hcurrent_y
                       + Val(layout).text_block.line_height
                /\ hline' = hline + 1
                /\ UNCHANGED <<hpc, hdrawn>>
    /\ UNCHANGED <<parserVars, genVars, renderVars, layoutVars, serifVars,
                   guiVars>>

\* draw_text_horizontal: return image
DrawHorizontalReturn ==
    /\ hpc = "draw"
    /\ hline >= Len(Val(layout).text_block.lines)
    /\ hpc' = "returned"
    /\ UNCHANGED <<hline, hcurrent_y, hdrawn, parserVars, genVars, renderVars,
                   layoutVars, serifVars, guiVars>>

----------------------------------------------------------------------------
(* core/renderer.py: draw_text_vertical and the glyph table.  A character  *)
(* outside ASCII is written as the name of its code point.                 *)

\* essential_conversion: the prolonged sound mark, the minus sign, the
\* horizontal bar and the box-drawing light horizontal give the fullwidth
\* vertical line
essential_conversion ==
    [c \in {"U+30FC", "U+2212", "U+2015", "U+2500"} |-> "U+FF5C"]

\* safe_conversion: the horizontal and the midline horizontal ellipsis give
\* the presentation form for vertical horizontal ellipsis, the wave dash and
\* the fullwidth tilde the vertical wavy low line
safe_conversion ==
    [c \in {"U+2026", "U+22EF", "U+301C", "U+FF5E"} |->
        IF c \in {"U+2026", "U+22EF"} THEN "U+FE19" ELSE "U+FE34"]

\* the conversion with the bracket table, which the code has commented out,
\* in use (the fullwidth left parenthesis gives its vertical form)
convert_char_for_vertical_WithBrackets(char) ==
    IF char \in DOMAIN essential_conversion THEN essential_conversion[char]
    ELSE IF char \in DOMAIN safe_conversion THEN safe_conversion[char]
    ELSE IF char = "U+FF08" THEN "U+FE35"
    ELSE char

\* ImageRenderer._convert_char_for_vertical
convert_char_for_vertical(char) ==
    IF char \in DOMAIN essential_conversion THEN essential_conversion[char]
    ELSE IF char \in DOMAIN safe_conversion THEN safe_conversion[char]
    ELSE char

\* draw_text_vertical: one iteration of the loop over the positions,
\* draw.text((x, y), converted_char, ...)
DrawVerticalStep ==
    /\ dpc = "draw"
    /\ Len(drawn) < Len(to_draw)
    /\ drawn' = Append(drawn,
                       [to_draw[Len(drawn) + 1] EXCEPT
                            !.char = convert_char_for_vertical(@)])
    /\ UNCHANGED <<serifVars, horizVars, guiVars>>
    /\ UNCHANGED <<to_draw, dpc, rpc, index, render_last_scene_number, errors,
                   files, images, calls, run_success, rendered, parserVars,
                   genVars, layoutVars>>

\* draw_text_vertical: return image
DrawVerticalReturn ==
    /\ dpc = "draw"
    /\ Len(drawn) >= Len(to_draw)
    /\ dpc' = "done"
    /\ UNCHANGED <<serifVars, horizVars, guiVars>>
    /\ UNCHANGED <<to_draw, drawn, rpc, index, render_last_scene_number,
                   errors, files, images, calls, run_success, rendered,
                   parserVars, genVars, layoutVars>>

----------------------------------------------------------------------------
(* textwrap.wrap(paragraph, width, break_long_words=True), as _wrap_text    *)
(* calls it.  The texts of the model hold no tab and no hyphen, so tab      *)
(* expansion and the break after a hyphen are not part of it.               *)

\* the characters textwrap takes for whitespace (string.whitespace)
TwWhitespace == {" ", NL}

\* a chunk for which chunk.strip() == ''
IsBlank(s) == \A k \in 1..Len(s) : s[k] \in PyWhitespace

\* TextWrapper._munge_whitespace: every whitespace character becomes a space
munge_whitespace(s) ==
    [k \in 1..Len(s) |-> IF s[k] \in TwWhitespace THEN " " ELSE s[k]]

\* the length of the maximal run starting s that is all whitespace (ws) or
\* all non-whitespace
RunLength(s, ws) ==
    LET stops == {k \in 1..Len(s) : (s[k] \in TwWhitespace) # ws}
    IN  IF stops = {} THEN Len(s) ELSE SetMin(stops) - 1

\* TextWrapper._split: the chunks, runs of whitespace and words in turn
RECURSIVE split_chunks(_)
split_chunks(s) ==
    IF s = <<>> THEN <<>>
    ELSE LET n == RunLength(s, s[1] \in TwWhitespace)
         IN  <<SubSeq(s, 1, n)>> \o split_chunks(SubSeq(s, n + 1, Len(s)))

RECURSIVE JoinAll(_)
JoinAll(ss) == IF ss = <<>> THEN <<>> ELSE Head(ss) \o JoinAll(Tail(ss))

RECURSIVE SumLen(_)
SumLen(ss) == IF ss = <<>> THEN 0 ELSE Len(Head(ss)) + SumLen(Tail(ss))

\* the fit test off by one: a line may grow to width + 1
Fits_OffByOne(cur_len, l, width) == cur_len + l <= width + 1

\* if cur_len + l <= width: the chunk of length l still goes on the line
Fits(cur_len, l, width) == cur_len + l <= width

\* how many of the leading chunks fit on a line that already holds cur_len
RECURSIVE FitCount(_, _, _)
FitCount(chunks, cur_len, width) ==
    IF chunks = <<>> THEN 0
    ELSE IF Fits(cur_len, Len(Head(chunks)), width)
    THEN 1 + FitCount(Tail(chunks), cur_len + Len(Head(chunks)), width)
    ELSE 0

\* TextWrapper._wrap_chunks: the lines made of the chunks left, wrapped
\* being the lines made so far
RECURSIVE wrap_chunks(_, _, _)
wrap_chunks(chunks, wrapped, width) ==
    IF chunks = <<>> THEN wrapped
    ELSE
    LET \* a whitespace chunk that would start a line is dropped, except on
        \* the first line
        c0 == IF IsBlank(Head(chunks)) /\ wrapped # <<>>
              THEN Tail(chunks) ELSE chunks
        n == FitCount(c0, 0, width)
        line1 == SubSeq(c0, 1, n)
        c1 == SubSeq(c0, n + 1, Len(c0))
        \* _handle_long_word: the next chunk fits on no line; the part of it
        \* that fits here is cut off
        long == c1 # <<>> /\ Len(Head(c1)) > width
        space_left == width - SumLen(line1)
        line2 == IF long THEN Append(line1, SubSeq(Head(c1), 1, space_left))
                 ELSE line1
        c2 == IF long
              THEN <<SubSeq(Head(c1), space_left + 1, Len(Head(c1)))>>
                   \o Tail(c1)
              ELSE c1
        \* a whitespace chunk that would end the line is dropped
        line3 == IF line2 # <<>> /\ IsBlank(line2[Len(line2)])
                 THEN SubSeq(line2, 1, Len(line2) - 1) ELSE line2
    IN  wrap_chunks(c2,
                    IF line3 # <<>> THEN Append(wrapped, JoinAll(line3))
                    ELSE wrapped,
                    width)

\* textwrap.wrap
textwrap_wrap(paragraph, width) ==
    wrap_chunks(split_chunks(munge_whitespace(paragraph)), <<>>, width)

----------------------------------------------------------------------------
(* core/layout.py *)

bubble_padding == 20
bubble_margin == 40
narration_padding == 30
narration_margin == 60

VERTICAL == "vertical"
HORIZONTAL == "horizontal"

\* text.split("\n")
RECURSIVE SplitLines(_)
SplitLines(s) ==
    LET nls == {k \in 1..Len(s) : s[k] = NL}
    IN  IF nls = {} THEN <<s>>
        ELSE <<SubSeq(s, 1, SetMin(nls) - 1)>>
             \o SplitLines(SubSeq(s, SetMin(nls) + 1, Len(s)))

\* the lines _wrap_text makes of one paragraph
WrapParagraph(paragraph, max_chars) ==
    IF Strip(paragraph) = <<>> THEN <<<<>>>>
    ELSE LET wrapped == textwrap_wrap(paragraph, max_chars)
         IN  IF wrapped # <<>> THEN wrapped ELSE <<<<>>>>

\* TextLayoutCalculator._wrap_text
RECURSIVE WrapParagraphs(_, _)
WrapParagraphs(paragraphs, max_chars) ==
    IF paragraphs = <<>> THEN <<>>
    ELSE WrapParagraph(Head(paragraphs), max_chars)
         \o WrapParagraphs(Tail(paragraphs), max_chars)

wrap_text(t, max_chars, orientation) == WrapParagraphs(SplitLines(t), max_chars)

\* max(len(line) for line in lines) if lines else 0
MaxLineLen(ls) ==
    IF ls = <<>> THEN 0 ELSE SetMax({Len(ls[k]) : k \in 1..Len(ls)})

\* int(font_size * self.line_spacing_ratio), the ratio being 1.2
LineHeight(fs) == (fs * 12) \div 10

TextBlock(t, ls, w, h, lh, cw, o) ==
    [text |-> t, lines |-> ls, width |-> w, height |-> h, line_height |-> lh,
     char_width |-> cw, orientation |-> o]

\* the block size with the line height used along the columns of a vertical
\* block, as it is used along the rows of a horizontal one
BlockSize_LineHeightBoth(ls, char_width, line_height, orientation) ==
    IF orientation = VERTICAL
    THEN [width |-> Len(ls) * line_height,
          height |-> MaxLineLen(ls) * char_width]
    ELSE [width |-> MaxLineLen(ls) * char_width,
          height |-> Len(ls) * line_height]

\* width and height of the block of the wrapped lines ls
BlockSize(ls, char_width, line_height, orientation) ==
    IF orientation = VERTICAL
    THEN [width |-> Len(ls) * char_width,
          height |-> MaxLineLen(ls) * char_width]
    ELSE [width |-> MaxLineLen(ls) * char_width,
          height |-> Len(ls) * line_height]

\* the early return taken for the empty string only ("if not text:")
IsEmptyText_NoStrip(t) == t = <<>>

\* the early return of calculate_text_block
IsEmptyText(t) == Strip(t) = <<>>

\* TextLayoutCalculator.calculate_text_block
calculate_text_block(t, fs, max_chars, orientation) ==
    IF IsEmptyText(t)
    THEN TextBlock(<<>>, <<>>, 0, 0, 0, 0, orientation)
    ELSE LET line_height == LineHeight(fs)
             char_width == fs
             ls == wrap_text(t, max_chars, orientation)
             size == BlockSize(ls, char_width, line_height, orientation)
         IN  TextBlock(t, ls, size.width, size.height, line_height,
                       char_width, orientation)

\* the clamp with its two bounds applied in the other order:
\* min(max_val, max(min_val, value))
clamp_value_MaxWins(value, min_val, max_val) ==
    LET m == IF min_val > value THEN min_val ELSE value
    IN  IF max_val < m THEN max_val ELSE m

\* utils.clamp_value
clamp_value(value, min_val, max_val) ==
    LET m == IF max_val < value THEN max_val ELSE value
    IN  IF min_val > m THEN min_val ELSE m

\* calculate_serif_bubble_layout if the "bottom_left" bubble were put at the
\* left margin but at the top
SerifBubbleLayout_BottomLeftAtTop(tb, position) ==
    LET bubble_width == tb.width + bubble_padding * 2
        bubble_height == tb.height + bubble_padding * 2
        x0 == IF position = "top_right"
              THEN canvas.width - bubble_width - bubble_margin
              ELSE bubble_margin
        bubble_x == clamp_value(x0, bubble_margin,
                                canvas.width - bubble_width - bubble_margin)
        bubble_y == clamp_value(bubble_margin, bubble_margin,
                                canvas.height - bubble_height - bubble_margin)
    IN  [kind |-> "bubble", text_block |-> tb,
         bubble_x |-> bubble_x, bubble_y |-> bubble_y,
         bubble_width |-> bubble_width, bubble_height |-> bubble_height,
         text_x |-> bubble_x + bubble_padding,
         text_y |-> bubble_y + bubble_padding,
         padding |-> bubble_padding]

\* TextLayoutCalculator.calculate_serif_bubble_layout, from the text block
\* it calculated on
SerifBubbleLayout(tb, position) ==
    LET bubble_width == tb.width + bubble_padding * 2
        bubble_height == tb.height + bubble_padding * 2
        x0 == IF position = "top_right"
              THEN canvas.width - bubble_width - bubble_margin
              ELSE bubble_margin
        y0 == IF position = "top_right"
              THEN bubble_margin
              ELSE canvas.height - bubble_height - bubble_margin
        bubble_x == clamp_value(x0, bubble_margin,
                                canvas.width - bubble_width - bubble_margin)
        bubble_y == clamp_value(y0, bubble_margin,
                                canvas.height - bubble_height - bubble_margin)
    IN  [kind |-> "bubble", text_block |-> tb,
         bubble_x |-> bubble_x, bubble_y |-> bubble_y,
         bubble_width |-> bubble_width, bubble_height |-> bubble_height,
         text_x |-> bubble_x + bubble_padding,
         text_y |-> bubble_y + bubble_padding,
         padding |-> bubble_padding]

\* calculate_narration_layout: the orientation of its text block
NarrationOrientation(orientation) ==
    IF orientation = "vertical" THEN VERTICAL ELSE HORIZONTAL

\* TextLayoutCalculator.calculate_narration_layout, from the text block on
\* (// is \div: both round down)
NarrationLayout(tb, alignment) ==
    LET bg_width == canvas.width - narration_margin * 2
        bg_height == tb.height + narration_padding * 2
        bg_x == narration_margin
        bg_y == (canvas.height - bg_height) \div 2
        x0 == IF alignment = "center"
              THEN bg_x + (bg_width - tb.width) \div 2
              ELSE IF alignment = "right"
              THEN bg_x + bg_width - tb.width - narration_padding
              ELSE bg_x + narration_padding
        text_x == clamp_value(x0, bg_x + narration_padding,
                              bg_x + bg_width - tb.width - narration_padding)
    IN  [kind |-> "narration", text_block |-> tb,
         bg_x |-> bg_x, bg_y |-> bg_y,
         bg_width |-> bg_width, bg_height |-> bg_height,
         text_x |-> text_x, text_y |-> bg_y + narration_padding,
         alignment |-> alignment]

CharPos(x, y, char) == [x |-> x, y |-> y, char |-> char]

\* if char.strip(): the entries kept
NonWhitespace(ps) == SelectSeq(ps, LAMBDA p : p.char \notin PyWhitespace)

\* the columns laid out from left to right
ColumnX_LeftToRight(start_x, total_lines, line_index, char_width) ==
    start_x + line_index * char_width

\* the x of the column of line line_index (0-based) of total_lines
ColumnX(start_x, total_lines, line_index, char_width) ==
    start_x + (total_lines - 1 - line_index) * char_width

\* the cursor if only the characters that get an entry moved it
CursorAt_SkipWhitespace(line, k, start, char_width) ==
    start + Cardinality({j \in 1..(k - 1) : line[j] \notin PyWhitespace})
            * char_width

\* the cursor (current_y of a column, current_x of a row) when the loop
\* reaches character k (1-based) of the line: every character before it,
\* whitespace or not, has moved it by char_width
CursorAt(line, k, start, char_width) == start + (k - 1) * char_width

\* calculate_vertical_text_positions, the entries of one line
VerticalLine(tb, line_index, start_x, start_y) ==
    LET line == tb.lines[line_index + 1]
        current_x == ColumnX(start_x, Len(tb.lines), line_index,
                             tb.char_width)
    IN  NonWhitespace([k \in 1..Len(line) |->
            CharPos(current_x, CursorAt(line, k, start_y, tb.char_width),
                    line[k])])

\* TextLayoutCalculator.calculate_vertical_text_positions
calculate_vertical_text_positions(tb, start_x, start_y) ==
    IF tb.orientation # VERTICAL THEN <<>>
    ELSE JoinAll([n \in 1..Len(tb.lines) |->
                     VerticalLine(tb, n - 1, start_x, start_y)])

\* calculate_horizontal_text_positions, the entries of one line
HorizontalLine(tb, line_index, start_x, start_y) ==
    LET line == tb.lines[line_index + 1]
        current_y == start_y + line_index * tb.line_height
    IN  NonWhitespace([k \in 1..Len(line) |->
            CharPos(CursorAt(line, k, start_x, tb.char_width), current_y,
                    line[k])])

\* TextLayoutCalculator.calculate_horizontal_text_positions
calculate_horizontal_text_positions(tb, start_x, start_y) ==
    IF tb.orientation # HORIZONTAL THEN <<>>
    ELSE JoinAll([n \in 1..Len(tb.lines) |->
                     HorizontalLine(tb, n - 1, start_x, start_y)])

\* TextLayoutCalculator.get_text_character_positions
get_text_character_positions(lay) ==
    IF lay.text_block.orientation = VERTICAL
    THEN calculate_vertical_text_positions(lay.text_block, lay.text_x,
                                           lay.text_y)
    ELSE calculate_horizontal_text_positions(lay.text_block, lay.text_x,
                                             lay.text_y)

\* a call of calculate_text_block
CalcTextBlock ==
    /\ lpc = "input"
    /\ \E orientation \in {VERTICAL, HORIZONTAL} :
          text_block' = Some(calculate_text_block(text, font_size,
                                 max_chars_per_line, orientation))
    /\ lpc' = "block"
    /\ UNCHANGED <<serifVars, horizVars, guiVars>>
    /\ UNCHANGED <<canvas, text, font_size, max_chars_per_line, layout,
                   positions, wp, all_lines, para_of, adjustVars, parserVars,
                   genVars, renderVars>>

\* a call of calculate_serif_bubble_layout: the text block, always
\* vertical, then the bubble around it
CalcSerifBubble ==
    /\ lpc = "input"
    /\ text_block' = Some(calculate_text_block(text, font_size,
                               max_chars_per_line, VERTICAL))
    /\ \E position \in {"top_right", "bottom_left"} :
          layout' = Some(SerifBubbleLayout(Val(text_block'), position))
    /\ lpc' = "layout"
    /\ UNCHANGED <<serifVars, horizVars, guiVars>>
    /\ UNCHANGED <<canvas, text, font_size, max_chars_per_line, positions,
                   wp, all_lines, para_of, adjustVars, parserVars, genVars,
                   renderVars>>

\* a call of calculate_narration_layout
CalcNarration ==
    /\ lpc = "input"
    /\ \E orientation \in {"horizontal", "vertical"} :
          text_block' = Some(calculate_text_block(text, font_size,
                                 max_chars_per_line,
                                 NarrationOrientation(orientation)))
    /\ \E alignment \in {"left", "center", "right"} :
          layout' = Some(NarrationLayout(Val(text_block'), alignment))
    /\ lpc' = "layout"
    /\ UNCHANGED <<serifVars, horizVars, guiVars>>
    /\ UNCHANGED <<canvas, text, font_size, max_chars_per_line, positions,
                   wp, all_lines, para_of, adjustVars, parserVars, genVars,
                   renderVars>>

\* a call of get_text_character_positions on the layout just calculated
GetPositions ==
    /\ lpc = "layout"
    /\ positions' = get_text_character_positions(Val(layout))
    /\ lpc' = "positions"
    /\ UNCHANGED <<serifVars, horizVars, guiVars>>
    /\ UNCHANGED <<canvas, text, font_size, max_chars_per_line, text_block,
                   layout, wp, all_lines, para_of, adjustVars, parserVars,
                   genVars, renderVars>>

\* a call of _wrap_text, one iteration of its loop over the paragraphs
\* (wp paragraphs are done)
WrapTextStep ==
    /\ lpc \in {"input", "wrap"}
    /\ wp < Len(SplitLines(text))
    /\ LET made == WrapParagraph(SplitLines(text)[wp + 1], max_chars_per_line)
       IN  /\ all_lines' = all_lines \o made
           /\ para_of' = para_of \o [k \in 1..Len(made) |-> wp + 1]
    /\ wp' = wp + 1
    /\ lpc' = "wrap"
    /\ UNCHANGED <<serifVars, horizVars, guiVars>>
    /\ UNCHANGED <<canvas, text, font_size, max_chars_per_line, text_block,
                   layout, positions, adjustVars, parserVars, genVars,
                   renderVars>>

\* TextLayoutCalculator._bubbles_overlap
bubbles_overlap(bubble1, bubble2) ==
    ~ \/ bubble1.bubble_x + bubble1.bubble_width < bubble2.bubble_x
      \/ bubble2.bubble_x + bubble2.bubble_width < bubble1.bubble_x
      \/ bubble1.bubble_y + bubble1.bubble_height < bubble2.bubble_y
      \/ bubble2.bubble_y + bubble2.bubble_height < bubble1.bubble_y

\* _adjust_bubble_position: the new y, below the existing bubble or, if
\* that leaves the canvas, above it and not above the margin
NewY(bubble, existing_bubble) ==
    LET below == existing_bubble.bubble_y + existing_bubble.bubble_height + 20
        above == existing_bubble.bubble_y - bubble.bubble_height - 20
    IN  IF below + bubble.bubble_height > canvas.height - bubble_margin
        THEN IF bubble_margin > above THEN bubble_margin ELSE above
        ELSE below

\* _adjust_bubble_position if it moved the panel and left the text where it
\* was
adjust_bubble_position_PanelOnly(bubble, existing_bubble) ==
    [bubble EXCEPT !.bubble_y = NewY(bubble, existing_bubble)]

\* TextLayoutCalculator._adjust_bubble_position
adjust_bubble_position(bubble, existing_bubble) ==
    LET new_y == NewY(bubble, existing_bubble)
    IN  [bubble EXCEPT !.bubble_y = new_y, !.text_y = new_y + bubble.padding]

\* the inner loop of adjust_bubble_positions if it moved the bubble past
\* every adjusted bubble, overlapping or not
RECURSIVE AdjustAgainst_NoOverlapTest(_, _)
AdjustAgainst_NoOverlapTest(adjusted_bubble, existing) ==
    IF existing = <<>> THEN adjusted_bubble
    ELSE AdjustAgainst_NoOverlapTest(
             adjust_bubble_position(adjusted_bubble, Head(existing)),
             Tail(existing))

\* adjust_bubble_positions, the inner loop: the bubble is checked against
\* the adjusted bubbles one after the other
RECURSIVE AdjustAgainst(_, _)
AdjustAgainst(adjusted_bubble, existing) ==
    IF existing = <<>> THEN adjusted_bubble
    ELSE AdjustAgainst(
             IF bubbles_overlap(adjusted_bubble, Head(existing))
             THEN adjust_bubble_position(adjusted_bubble, Head(existing))
             ELSE adjusted_bubble,
             Tail(existing))

\* adjust_bubble_positions: if len(bubbles) <= 1: return bubbles
AdjustFew ==
    /\ apc = "loop"
    /\ Len(bubbles) <= 1
    /\ adjusted_bubbles' = bubbles
    /\ apc' = "done"
    /\ UNCHANGED <<serifVars, horizVars, guiVars>>
    /\ UNCHANGED <<lpc, canvas, text, font_size, max_chars_per_line,
                   text_block, layout, positions, wp, all_lines, para_of,
                   bubbles, parserVars, genVars, renderVars>>

\* adjust_bubble_positions: one iteration of the loop over the bubbles
AdjustStep ==
    /\ apc = "loop"
    /\ Len(bubbles) > 1
    /\ Len(adjusted_bubbles) < Len(bubbles)
    /\ adjusted_bubbles' =
           Append(adjusted_bubbles,
                  AdjustAgainst(bubbles[Len(adjusted_bubbles) + 1],
                                adjusted_bubbles))
    /\ UNCHANGED <<serifVars, horizVars, guiVars>>
    /\ UNCHANGED <<lpc, canvas, text, font_size, max_chars_per_line,
                   text_block, layout, positions, wp, all_lines, para_of,
                   bubbles, apc, parserVars, genVars, renderVars>>

\* adjust_bubble_positions: return adjusted_bubbles
AdjustReturn ==
    /\ apc = "loop"
    /\ Len(bubbles) > 1
    /\ Len(adjusted_bubbles) = Len(bubbles)
    /\ apc' = "done"
    /\ UNCHANGED <<serifVars, horizVars, guiVars>>
    /\ UNCHANGED <<lpc, canvas, text, font_size, max_chars_per_line,
                   text_block, layout, positions, wp, all_lines, para_of,
                   bubbles, adjusted_bubbles, parserVars, genVars,
                   renderVars>>

----------------------------------------------------------------------------
(* gui/gui_main.py: _execute_generation on the UI thread, the worker       *)
(* threads running _generation_worker, and the callbacks given to          *)
(* root.after(0, ...), which the event loop of the UI thread runs in the   *)
(* order they were given.  A message box blocks the method that shows it;  *)
(* while the confirmation box of _execute_generation is open, the event    *)
(* loop goes on running callbacks.                                         *)

\* a callback given to root.after: what it does and the worker that gave it
Callback(what, by) == [what |-> what, by |-> by]

\* a worker thread: where it is in _generation_worker and how its try block
\* ended ("success", "errors": render_novel_blocks returned False,
\* "exception": something raised)
Worker(wpc, outcome) == [pc |-> wpc, outcome |-> outcome]

\* the guard of _execute_generation if it let every request pass
MayStart_Always(flag) == TRUE

\* _execute_generation: the guard "if self.is_processing: ... return"
MayStart(flag) == ~flag

\* the finally clause if an unexpected exception left the UI as it was
FinallyCallbacks_NotOnException(w) ==
    IF workers[w].outcome = "exception" THEN <<>>
    ELSE <<Callback("update_ui_state", w), Callback("clear_flag", w)>>

\* _generation_worker, finally: the two callbacks, in the order given
FinallyCallbacks(w) ==
    <<Callback("update_ui_state", w), Callback("clear_flag", w)>>

\* the button calls _execute_generation (it does so only when enabled):
\* the guard on is_processing, then _validate_settings
ExecuteRequest ==
    /\ upc = "idle"
    /\ ui_enabled
    /\ requests < MaxRequests
    /\ requests' = requests + 1
    /\ IF MayStart(is_processing)
       THEN /\ \E is_valid \in BOOLEAN :
                   upc' = IF is_valid THEN "confirm" ELSE "idle"
            /\ refused' = refused
       ELSE /\ upc' = "idle"
            /\ refused' = refused + 1
    /\ UNCHANGED <<is_processing, ui_enabled, callbacks, workers, parserVars,
                   genVars, renderVars, layoutVars, serifVars, horizVars>>

\* _execute_generation: messagebox.askyesno returns
ExecuteConfirm ==
    /\ upc = "confirm"
    /\ \E yes \in BOOLEAN : upc' = IF yes THEN "flag" ELSE "idle"
    /\ UNCHANGED <<is_processing, ui_enabled, callbacks, workers, requests,
                   refused, parserVars, genVars, renderVars, layoutVars,
                   serifVars, horizVars>>

\* _execute_generation: _save_settings, self.is_processing = True,
\* self._update_ui_state(False)
ExecuteSetFlag ==
    /\ upc = "flag"
    /\ is_processing' = TRUE
    /\ ui_enabled' = FALSE
    /\ upc' = "start"
    /\ UNCHANGED <<callbacks, workers, requests, refused, parserVars, genVars,
                   renderVars, layoutVars, serifVars, horizVars>>

\* _execute_generation: threading.Thread(...), thread.start()
ExecuteStartThread ==
    /\ upc = "start"
    /\ workers' = Append(workers, Worker("begin", "none"))
    /\ upc' = "idle"
    /\ UNCHANGED <<is_processing, ui_enabled, callbacks, requests, refused,
                   parserVars, genVars, renderVars, layoutVars, serifVars,
                   horizVars>>

\* the event loop runs the oldest callback: a log line, a message box, the
\* widgets enabled again, is_processing set to False
RunCallback ==
    /\ upc \in {"idle", "confirm"}
    /\ callbacks # <<>>
    /\ callbacks' = Tail(callbacks)
    /\ ui_enabled' = IF Head(callbacks).what = "update_ui_state" THEN TRUE
                     ELSE ui_enabled
    /\ is_processing' = IF Head(callbacks).what = "clear_flag" THEN FALSE
                        ELSE is_processing
    /\ UNCHANGED <<upc, workers, requests, refused, parserVars, genVars,
                   renderVars, layoutVars, serifVars, horizVars>>

\* _generation_worker: the first log lines
WorkerBegin(w) ==
    /\ workers[w].pc = "begin"
    /\ workers' = [workers EXCEPT ![w].pc = "run"]
    /\ callbacks' = Append(callbacks, Callback("log", w))
    /\ UNCHANGED <<is_processing, ui_enabled, upc, requests, refused,
                   parserVars, genVars, renderVars, layoutVars, serifVars,
                   horizVars>>

\* _generation_worker: parse_novel_text and render_novel_blocks, as one
\* unit; they return with success, return with errors, or something raises
WorkerRun(w) ==
    /\ workers[w].pc = "run"
    /\ \E outcome \in {"success", "errors", "exception"} :
           workers' = [workers EXCEPT ![w] = Worker("report", outcome)]
    /\ UNCHANGED <<is_processing, ui_enabled, upc, callbacks, requests,
                   refused, parserVars, genVars, renderVars, layoutVars,
                   serifVars, horizVars>>

\* _generation_worker: the log lines and the message box of the result
\* (showinfo, or showerror in the else branch and in the except clause)
WorkerReport(w) ==
    /\ workers[w].pc = "report"
    /\ workers' = [workers EXCEPT ![w].pc = "finally"]
    /\ callbacks' = callbacks \o
           <<Callback("log", w),
             Callback(IF workers[w].outcome = "success" THEN "showinfo"
                      ELSE "showerror", w)>>
    /\ UNCHANGED <<is_processing, ui_enabled, upc, requests, refused,
                   parserVars, genVars, renderVars, layoutVars, serifVars,
                   horizVars>>

\* _generation_worker, finally: the two root.after calls
WorkerFinally(w) ==
    /\ workers[w].pc = "finally"
    /\ workers' = [workers EXCEPT ![w].pc = "last_log"]
    /\ callbacks' = callbacks \o FinallyCallbacks(w)
    /\ UNCHANGED <<is_processing, ui_enabled, upc, requests, refused,
                   parserVars, genVars, renderVars, layoutVars, serifVars,
                   horizVars>>

\* _generation_worker, finally: the last log line; the thread ends
WorkerLastLog(w) ==
    /\ workers[w].pc = "last_log"
    /\ workers' = [workers EXCEPT ![w].pc = "ended"]
    /\ callbacks' = Append(callbacks, Callback("log", w))
    /\ UNCHANGED <<is_processing, ui_enabled, upc, requests, refused,
                   parserVars, genVars, renderVars, layoutVars, serifVars,
                   horizVars>>

\* a step of the worker thread w
WorkerStep(w) ==
    /\ w <= Len(workers)
    /\ \/ WorkerBegin(w)
       \/ WorkerRun(w)
       \/ WorkerReport(w)
       \/ WorkerFinally(w)
       \/ WorkerLastLog(w)

\* a step of _execute_generation that waits for nobody
ExecuteStep == ExecuteSetFlag \/ ExecuteStartThread

----------------------------------------------------------------------------
(* Specifications *)

SerifIdle ==
    /\ spc = "idle"
    /\ serif_list = <<>>
    /\ settings = [serif_bg_color |-> TRUE, serif_border_color |-> TRUE,
                   serif_font_color |-> TRUE]
    /\ serif_k = 0
    /\ ops = <<>>
    /\ raised_in = {}
    /\ serif_result = None

HorizIdle ==
    /\ hpc = "idle"
    /\ hline = 0
    /\ hcurrent_y = 0
    /\ hdrawn = <<>>

GuiIdle ==
    /\ is_processing = FALSE
    /\ ui_enabled = TRUE
    /\ upc = "idle"
    /\ callbacks = <<>>
    /\ workers = <<>>
    /\ requests = 0
    /\ refused = 0

ParserIdle ==
    /\ lines = <<>>
    /\ i = 0
    /\ blocks = <<>>
    /\ current_block = None
    /\ last_scene_number = None
    /\ pc = "idle"
    /\ warnings = None

GenStart ==
    /\ g = 0
    /\ current_scene_number = None
    /\ output_blocks = <<>>
    /\ emitted_by = <<>>

RenderLoopIdle ==
    /\ rpc = "idle"
    /\ index = 1
    /\ render_last_scene_number = None
    /\ errors = <<>>
    /\ files = {}
    /\ images = {}
    /\ calls = <<>>
    /\ run_success = None
    /\ rendered = None

DrawIdle ==
    /\ to_draw = <<>>
    /\ drawn = <<>>
    /\ dpc = "idle"

RenderIdle == RenderLoopIdle /\ DrawIdle

AdjustIdle ==
    /\ bubbles = <<>>
    /\ adjusted_bubbles = <<>>
    /\ apc = "idle"

LayoutIdle ==
    /\ lpc = "idle"
    /\ canvas = [width |-> 0, height |-> 0]
    /\ text = <<>>
    /\ font_size = 0
    /\ max_chars_per_line = 0
    /\ text_block = None
    /\ layout = None
    /\ positions = <<>>
    /\ wp = 0
    /\ all_lines = <<>>
    /\ para_of = <<>>
    /\ AdjustIdle

(* The parser run: parse_lines on some lines, then                         *)
(* generate_output_blocks on its blocks.                                   *)

Str_scene1 == <<"[", "s", "c", "e", "n", "e", ":", "1", "]">>
Str_SCENE2x == <<"[", "S", "C", "E", "N", "E", ":", "2", "]", "x">>
Str_scene_noid == <<"[", "s", "c", "e", "n", "e", ":", "]">>
Str_para == <<"[", "p", "a", "r", "a", "]">>
Str_serifA == <<OQ, "A", CQ>>
Str_serifB == <<OQ, "B", CQ>>
Str_serifC == <<OQ, "C", CQ>>
Str_x_serifAB == <<"x", OQ, "A", CQ, OQ, "B", CQ>>
Str_blank_serif == <<OQ, " ", CQ>>

LineShapes ==
    { Str_scene1, Str_SCENE2x, Str_scene_noid, Str_para, <<>>, <<" ">>,
      Str_serifA, Str_x_serifAB, Str_blank_serif, <<"x">> }

Str_scene001 == <<"[", "s", "c", "e", "n", "e", ":", "0", "0", "1", "]">>
Str_scene002 == <<"[", "s", "c", "e", "n", "e", ":", "0", "0", "2", "]">>
Str_narration_text ==
    <<"n", "a", "r", "r", "a", "t", "i", "o", "n", " ", "t", "e", "x", "t">>
Str_more_text == <<"m", "o", "r", "e", " ", "t", "e", "x", "t">>

\* the end-to-end scenario of the specification (section 8); it has the
\* shape of the sample text in the __main__ block of parser.py
ScenarioLines ==
    << Str_scene001, <<>>, Str_serifA, Str_serifB, Str_serifC, Str_para,
       Str_narration_text, Str_scene002, Str_para, Str_more_text >>

Inputs == SeqsUpTo(LineShapes, MaxLines) \cup {ScenarioLines}

Init ==
    /\ SerifIdle
    /\ HorizIdle
    /\ GuiIdle
    /\ lines \in Inputs
    /\ i = 0
    /\ blocks = <<>>
    /\ current_block = None
    /\ last_scene_number = None
    /\ pc = "scan"
    /\ warnings = None
    /\ GenStart
    /\ RenderIdle
    /\ LayoutIdle

Next ==
    \/ ParseSceneTag
    \/ ParseParaTag
    \/ ParseEmptyLine
    \/ ParseTextLine
    \/ ParseFinish
    \/ Validate
    \/ GenerateStep
    \/ GenerateReturn

Spec == Init /\ [][Next]_vars

\* one pass through the while loop of parse_lines, or the code after it
ParseStep ==
    \/ ParseSceneTag
    \/ ParseParaTag
    \/ ParseEmptyLine
    \/ ParseTextLine
    \/ ParseFinish

\* parse_lines is straight-line sequential code on one thread: while a pass
\* of the loop (or the code after it) can be executed, it is executed
SpecParseFair == Init /\ [][Next]_vars /\ WF_vars(ParseStep)

(* generate_output_blocks on any list of blocks.  A page-break block has   *)
(* no scene number, no serifs and no text, as the one place that makes it  *)
(* (parse_lines) makes it.                                                 *)

BlockShapes ==
    {SceneBlock(SCENE_ONLY, sn, <<>>, <<>>, TRUE, <<>>) :
        sn \in {None, Some(<<"1">>), Some(<<"2">>)}}
    \cup
    {SceneBlock(SCENE_WITH_SERIFS, sn,
                <<SerifData(<<"A">>, "top_right", 1)>>, nt, FALSE, <<>>) :
        sn \in {None, Some(<<"1">>), Some(<<"2">>)},
        nt \in {<<>>, <<"x">>, <<" ">>, <<" ", "x">>}}
    \cup
    {SceneBlock(NARRATION, sn, <<>>, <<"x">>, FALSE, <<>>) :
        sn \in {None, Some(<<"1">>), Some(<<"2">>)}}
    \cup
    {SceneBlock(PAGE_BREAK, None, <<>>, <<>>, FALSE, <<>>)}

InitGen ==
    /\ SerifIdle
    /\ HorizIdle
    /\ GuiIdle
    /\ lines = <<>>
    /\ i = 0
    /\ blocks \in SeqsUpTo(BlockShapes, MaxBlocks)
    /\ current_block = None
    /\ last_scene_number = None
    /\ pc = "generate"
    /\ warnings = None
    /\ GenStart
    /\ RenderIdle
    /\ LayoutIdle

NextGen ==
    \/ GenerateStep
    \/ GenerateReturn

SpecGen == InitGen /\ [][NextGen]_vars

(* render_novel_blocks on any list of block dicts, in a folder holding     *)
(* images for some scene numbers.                                          *)

InitRender ==
    /\ SerifIdle
    /\ HorizIdle
    /\ GuiIdle
    /\ ParserIdle
    /\ GenStart
    /\ rpc = "loop"
    /\ index = 1
    /\ render_last_scene_number = None
    /\ errors = <<>>
    /\ files = {}
    /\ images \in {{}, {<<"1">>}}
    /\ calls = <<>>
    /\ run_success = None
    /\ rendered = None
    /\ DrawIdle
    /\ LayoutIdle

NextRender ==
    \/ RenderBlock
    \/ RenderReturn

SpecRender == InitRender /\ [][NextRender]_vars

(* draw_text_vertical on any list of up to MaxGlyphs positions whose        *)
(* characters are those of the two tables, the characters the tables give, *)
(* a bracket of the table that is commented out and two ordinary ones.     *)

GlyphAlphabet ==
    DOMAIN essential_conversion \cup DOMAIN safe_conversion
        \cup {"U+FF5C", "U+FE19", "U+FE34", "U+FF08", "a", "-"}

\* the positions of one column of characters, 48 apart
ColumnOf(cs) == [k \in 1..Len(cs) |-> CharPos(0, (k - 1) * 48, cs[k])]

InitDraw ==
    /\ SerifIdle
    /\ HorizIdle
    /\ GuiIdle
    /\ ParserIdle
    /\ GenStart
    /\ RenderLoopIdle
    /\ LayoutIdle
    /\ to_draw \in {ColumnOf(cs) : cs \in SeqsUpTo(GlyphAlphabet, MaxGlyphs)}
    /\ drawn = <<>>
    /\ dpc = "draw"

NextDraw ==
    \/ DrawVerticalStep
    \/ DrawVerticalReturn

SpecDraw == InitDraw /\ [][NextDraw]_vars

(* One layout calculation on any text, with a wrap width of at least 1    *)
(* (textwrap refuses any other) and a caption alignment that exists.       *)

Alphabet == {"a", "b", " ", IDSP, NL}
Texts == SeqsUpTo(Alphabet, MaxTextLen)
FontSizes == {16, 48}
CanvasSizes == {[width |-> 960, height |-> 1280]}

InitLayout ==
    /\ SerifIdle
    /\ HorizIdle
    /\ GuiIdle
    /\ ParserIdle
    /\ GenStart
    /\ RenderIdle
    /\ lpc = "input"
    /\ canvas \in CanvasSizes
    /\ text \in Texts
    /\ font_size \in FontSizes
    /\ max_chars_per_line \in 1..MaxWrapWidth
    /\ text_block = None
    /\ layout = None
    /\ positions = <<>>
    /\ wp = 0
    /\ all_lines = <<>>
    /\ para_of = <<>>
    /\ AdjustIdle

NextLayout ==
    \/ WrapTextStep
    \/ CalcTextBlock
    \/ CalcSerifBubble
    \/ CalcNarration
    \/ GetPositions

SpecLayout == InitLayout /\ [][NextLayout]_vars

(* The dialogue bubble and the narration panel of any text, on the default *)
(* canvas and on one so small that some of the texts do not fit in it.     *)

SmallCanvas == [width |-> 200, height |-> 200]
PanelCanvasSizes == CanvasSizes \cup {SmallCanvas}

InitPanel ==
    /\ SerifIdle
    /\ HorizIdle
    /\ GuiIdle
    /\ ParserIdle
    /\ GenStart
    /\ RenderIdle
    /\ lpc = "input"
    /\ canvas \in PanelCanvasSizes
    /\ text \in Texts
    /\ font_size \in FontSizes
    /\ max_chars_per_line \in 1..MaxWrapWidth
    /\ text_block = None
    /\ layout = None
    /\ positions = <<>>
    /\ wp = 0
    /\ all_lines = <<>>
    /\ para_of = <<>>
    /\ AdjustIdle

NextPanel ==
    \/ CalcSerifBubble
    \/ CalcNarration

SpecPanel == InitPanel /\ [][NextPanel]_vars

(* adjust_bubble_positions on any list of bubbles whose size is that of    *)
(* their text block plus the padding and whose text lies the padding       *)
(* inside them, as calculate_serif_bubble_layout makes them.               *)

MaxBubbles == 3

\* a bubble at x, y around a text block of width w and height h
BubbleAt(x, y, w, h) ==
    [kind |-> "bubble",
     text_block |-> TextBlock(<<>>, <<>>, w, h, 0, 0, VERTICAL),
     bubble_x |-> x, bubble_y |-> y,
     bubble_width |-> w + bubble_padding * 2,
     bubble_height |-> h + bubble_padding * 2,
     text_x |-> x + bubble_padding, text_y |-> y + bubble_padding,
     padding |-> bubble_padding]

BubbleShapes ==
    {BubbleAt(x, y, 16, h) : x \in {40, 120}, y \in {40, 100}, h \in {0, 48}}

InitAdjust ==
    /\ SerifIdle
    /\ HorizIdle
    /\ GuiIdle
    /\ ParserIdle
    /\ GenStart
    /\ RenderIdle
    /\ lpc = "idle"
    /\ canvas \in PanelCanvasSizes
    /\ text = <<>>
    /\ font_size = 0
    /\ max_chars_per_line = 0
    /\ text_block = None
    /\ layout = None
    /\ positions = <<>>
    /\ wp = 0
    /\ all_lines = <<>>
    /\ para_of = <<>>
    /\ bubbles \in SeqsUpTo(BubbleShapes, MaxBubbles)
    /\ adjusted_bubbles = <<>>
    /\ apc = "loop"

NextAdjust ==
    \/ AdjustFew
    \/ AdjustStep
    \/ AdjustReturn

SpecAdjust == InitAdjust /\ [][NextAdjust]_vars

(* calculate_serif_bubble_layout called for up to MaxBubbles texts on one   *)
(* calculator, and adjust_bubble_positions on the layouts it returned.     *)

BubbleTexts == {<<>>, <<"a">>, <<"a", "b">>, <<"a", NL, "b">>}

InitBubbles ==
    /\ SerifIdle
    /\ HorizIdle
    /\ GuiIdle
    /\ ParserIdle
    /\ GenStart
    /\ RenderIdle
    /\ lpc = "input"
    /\ canvas \in PanelCanvasSizes
    /\ text \in BubbleTexts
    /\ font_size \in FontSizes
    /\ max_chars_per_line \in 1..MaxWrapWidth
    /\ text_block = None
    /\ layout = None
    /\ positions = <<>>
    /\ wp = 0
    /\ all_lines = <<>>
    /\ para_of = <<>>
    /\ bubbles = <<>>
    /\ adjusted_bubbles = <<>>
    /\ apc = "idle"

\* the caller keeps the returned layout and makes ready the next text
CollectBubble ==
    /\ apc = "idle"
    /\ lpc = "layout"
    /\ Len(bubbles) < MaxBubbles
    /\ bubbles' = Append(bubbles, Val(layout))
    /\ text' \in BubbleTexts
    /\ text_block' = None
    /\ layout' = None
    /\ lpc' = "input"
    /\ UNCHANGED <<serifVars, horizVars, guiVars>>
    /\ UNCHANGED <<canvas, font_size, max_chars_per_line, positions, wp,
                   all_lines, para_of, adjusted_bubbles, apc, parserVars,
                   genVars, renderVars>>

\* the call of adjust_bubble_positions on the layouts kept so far
CallAdjust ==
    /\ apc = "idle"
    /\ lpc = "input"
    /\ apc' = "loop"
    /\ lpc' = "idle"
    /\ UNCHANGED <<serifVars, horizVars, guiVars>>
    /\ UNCHANGED <<canvas, text, font_size, max_chars_per_line, text_block,
                   layout, positions, wp, all_lines, para_of, bubbles,
                   adjusted_bubbles, parserVars, genVars, renderVars>>

NextBubbles ==
    \/ CalcSerifBubble
    \/ CollectBubble
    \/ CallAdjust
    \/ AdjustFew
    \/ AdjustStep
    \/ AdjustReturn

SpecBubbles == InitBubbles /\ [][NextBubbles]_vars

(* calculate_narration_layout for a narration text, and                    *)
(* draw_text_horizontal on the layout it returned.                         *)

NarrationTexts ==
    {<<"a">>, <<"a", "b", NL, "a">>, <<"a", NL, NL, "b">>,
     <<"a", "a", "a", "a", NL, "a">>, <<" ">>}

InitNarration ==
    /\ SerifIdle
    /\ HorizIdle
    /\ GuiIdle
    /\ ParserIdle
    /\ GenStart
    /\ RenderIdle
    /\ lpc = "input"
    /\ canvas \in CanvasSizes
    /\ text \in NarrationTexts
    /\ font_size \in FontSizes
    /\ max_chars_per_line \in 1..(MaxWrapWidth + 1)
    /\ text_block = None
    /\ layout = None
    /\ positions = <<>>
    /\ wp = 0
    /\ all_lines = <<>>
    /\ para_of = <<>>
    /\ AdjustIdle

NextNarration ==
    \/ CalcNarration
    \/ DrawHorizontalCall
    \/ DrawHorizontalStep
    \/ DrawHorizontalReturn

SpecNarration == InitNarration /\ [][NextNarration]_vars

(* The render loop over image_with_serifs blocks, each rendered step by    *)
(* step.                                                                   *)

InitSerifs ==
    /\ SerifIdle
    /\ HorizIdle
    /\ GuiIdle
    /\ ParserIdle
    /\ GenStart
    /\ rpc = "loop"
    /\ index = 1
    /\ render_last_scene_number = None
    /\ errors = <<>>
    /\ files = {}
    /\ images = {}
    /\ calls = <<>>
    /\ run_success = None
    /\ rendered = None
    /\ DrawIdle
    /\ LayoutIdle

NextSerifs ==
    \/ SerifsCall
    \/ SerifsBackground
    \/ SerifsEntry
    \/ SerifsFill
    \/ SerifsBorder
    \/ SerifsGlyphs
    \/ SerifsFlatten
    \/ SerifsSave
    \/ SerifsExcept
    \/ SerifsReturn
    \/ RenderReturn

SpecSerifs == InitSerifs /\ [][NextSerifs]_vars

(* The window: up to MaxRequests presses of the button, the worker        *)
(* threads they start and the event loop.  In SpecGuiFair the event loop    *)
(* keeps running its callbacks, every thread that can go on does, and      *)
(* _execute_generation goes on where it waits for nobody.                  *)

InitGui ==
    /\ SerifIdle
    /\ HorizIdle
    /\ GuiIdle
    /\ ParserIdle
    /\ GenStart
    /\ RenderIdle
    /\ LayoutIdle

NextGui ==
    \/ ExecuteRequest
    \/ ExecuteConfirm
    \/ ExecuteSetFlag
    \/ ExecuteStartThread
    \/ RunCallback
    \/ \E w \in 1..Len(workers) : WorkerBegin(w)
    \/ \E w \in 1..Len(workers) : WorkerRun(w)
    \/ \E w \in 1..Len(workers) : WorkerReport(w)
    \/ \E w \in 1..Len(workers) : WorkerFinally(w)
    \/ \E w \in 1..Len(workers) : WorkerLastLog(w)

SpecGui == InitGui /\ [][NextGui]_vars

SpecGuiFair ==
    /\ InitGui
    /\ [][NextGui]_vars
    /\ WF_vars(RunCallback)
    /\ WF_vars(ExecuteStep)
    /\ \A w \in 1..MaxRequests : WF_vars(WorkerStep(w))

----------------------------------------------------------------------------
(* Properties of the parser run (Spec, SpecGen) *)

C1_Expected ==
    << Instruction("image_with_serifs", Some(<<"0", "0", "1">>),
                   << SerifData(<<"A">>, "top_right", 1),
                      SerifData(<<"B">>, "bottom_left", 2) >>, <<>>),
       Instruction("narration", Some(<<"0", "0", "1">>), <<>>,
                   Str_narration_text),
       Instruction("narration", Some(<<"0", "0", "2">>), <<>>,
                   Str_more_text) >>

\* C1: the ten lines of the end-to-end scenario yield exactly three
\* instructions: image_with_dialogue for 001 with A in the first and B in
\* the second position (C is dropped), narration for 001 with "narration
\* text", narration for 002 with "more text"; the scene-002 tag that is
\* directly followed by [para] emits no instruction of its own.
C1_ScenarioThreeInstructions ==
    (pc = "done" /\ lines = ScenarioLines) => output_blocks = C1_Expected

\* what the run on the scenario returns: a fourth instruction, a narration
\* for 002 with an empty caption, made of the block the scene-002 tag opened
C1_ScenarioAsRun ==
    (pc = "done" /\ lines = ScenarioLines) =>
        /\ Len(output_blocks) = 4
        /\ SubSeq(output_blocks, 1, 2) = SubSeq(C1_Expected, 1, 2)
        /\ output_blocks[3] =
               Instruction("narration", Some(<<"0", "0", "2">>), <<>>, <<>>)
        /\ output_blocks[4] = C1_Expected[3]

C1_ScenarioRun == pc = "done" /\ lines = ScenarioLines

\* the blocks that a scene tag opened, whose next line was blank and that
\* got nothing but blank lines until the next tag or the end of the input
C2_BlankSceneBlocks ==
    {b \in 1..Len(blocks) :
        LET rl == blocks[b].raw_lines
        IN  /\ Len(rl) >= 2
            /\ scene_pattern_match(rl[1])
            /\ \A k \in 2..Len(rl) : \A c \in 1..Len(rl[k]) :
                   rl[k][c] \in PyWhitespace}

\* C2: a scene tag with identifier X whose immediately following line is
\* blank, and whose block gets no dialogue and no non-blank caption text
\* before the next tag or the end of the input, produces exactly one
\* image_only instruction, with identifier X, no dialogue and an empty
\* caption.
C2_BlankSceneIsImageOnly ==
    pc = "done" =>
        \A b \in C2_BlankSceneBlocks :
            LET own == {n \in 1..Len(output_blocks) : emitted_by[n] = b}
                X == SceneGroupAt(blocks[b].raw_lines[1], 1)
            IN  /\ Cardinality(own) = 1
                /\ \A n \in own :
                       output_blocks[n] =
                           [type |-> "image_only", scene_number |-> Some(X),
                            serifs |-> <<>>, narration |-> <<>>]

\* a finished run with such a block that the next scene tag closed, and
\* its image_only instruction
C2_Witness ==
    /\ pc = "done"
    /\ 1 \in C2_BlankSceneBlocks
    /\ Len(blocks) = 2
    /\ ~IsNone(blocks[2].scene_number)
    /\ output_blocks[1].type = "image_only"
    /\ emitted_by[1] = 1

\* the scene number of the nearest block at or before block k that has one
C3_NearestOwn(k) ==
    LET own == {j \in 1..k : ~IsNone(blocks[j].scene_number)}
    IN  IF own = {} THEN None ELSE blocks[SetMax(own)].scene_number

\* C3: for any sequence of blocks, every instruction carries the scene
\* identifier of the nearest block at or before the one that emitted it that
\* has an identifier of its own, and no identifier only when no such block
\* exists; a page-break block emits no instruction and does not reset the
\* carried identifier.
C3_CarryForward ==
    pc \in {"generate", "done"} =>
        /\ Len(emitted_by) = Len(output_blocks)
        /\ \A n \in 1..Len(output_blocks) :
               /\ emitted_by[n] \in 1..g
               /\ blocks[emitted_by[n]].block_type # PAGE_BREAK
               /\ output_blocks[n].scene_number = C3_NearestOwn(emitted_by[n])
        /\ current_scene_number = C3_NearestOwn(g)

\* a block with an identifier, a page break, then a block without one whose
\* instruction carries the identifier across the page break
C3_Witness ==
    /\ pc = "done"
    /\ Len(blocks) = 3
    /\ ~IsNone(blocks[1].scene_number)
    /\ blocks[2].block_type = PAGE_BREAK
    /\ blocks[3].block_type # PAGE_BREAK
    /\ IsNone(blocks[3].scene_number)
    /\ \E n \in 1..Len(output_blocks) :
           /\ emitted_by[n] = 3
           /\ output_blocks[n].scene_number = blocks[1].scene_number

----------------------------------------------------------------------------
(* Properties of the render loop (SpecRender) *)

\* the three digits of the file written for the k-th instruction
C4_Number(k) == <<k \div 100, (k \div 10) % 10, k % 10>>

\* C4: every instruction is attempted once, in input order, and the k-th is
\* rendered with sequence index k whether or not earlier ones succeeded,
\* returned false or raised; an instruction that fails leaves no file with
\* its number and the numbers of the later files do not shift.
C4_IndexIsPosition ==
    /\ index = Len(calls) + 1
    /\ \A k \in 1..Len(calls) :
           /\ calls[k].index = k
           /\ (C4_Number(k) \in files) <=> (calls[k].outcome = "ok")
    /\ \A f \in files : \E k \in 1..Len(calls) : f = C4_Number(k)

\* five instructions of which exactly the third fails, once in each way a
\* failure comes about: the files are 001, 002, 004 and 005
C4_ThirdOfFiveFails(how) ==
    /\ Len(calls) = 5
    /\ calls[3].outcome = how
    /\ \A k \in {1, 2, 4, 5} : calls[k].outcome = "ok"
    /\ files = {<<0, 0, 1>>, <<0, 0, 2>>, <<0, 0, 4>>, <<0, 0, 5>>}

C4_Witness == C4_ThirdOfFiveFails("raised") /\ rpc = "done"

\* the number of error entries that name the index k
C5_EntriesFor(k) == Cardinality({e \in 1..Len(errors) : errors[e].index = k})

\* C5: the loop records exactly one error entry for every instruction that
\* failed, naming its sequence index, and none for one that succeeded,
\* whatever made it fail (false returned, exception raised, unknown kind);
\* the success flag is true exactly when every instruction succeeded.
C5_OneEntryPerFailure ==
    /\ \A k \in 1..Len(calls) :
           C5_EntriesFor(k) = IF calls[k].outcome = "ok" THEN 0 ELSE 1
    /\ \A e \in 1..Len(errors) : errors[e].index \in 1..Len(calls)
    /\ rpc = "done" =>
           Val(run_success) = (\A k \in 1..Len(calls) : calls[k].outcome = "ok")

\* what the loop records: one entry for a false return and for an exception,
\* two for an unknown kind; the flag is as stated
C5_EntriesAsRun ==
    /\ \A k \in 1..Len(calls) :
           C5_EntriesFor(k) = IF calls[k].outcome = "ok" THEN 0
                              ELSE IF calls[k].outcome = "unknown" THEN 2
                              ELSE 1
    /\ rpc = "done" =>
           Val(run_success) = (\A k \in 1..Len(calls) : calls[k].outcome = "ok")

\* a finished run whose only instruction was of an unknown kind
C5_UnknownKindRun ==
    /\ rpc = "done"
    /\ Len(calls) = 1
    /\ calls[1].outcome = "unknown"
    /\ Len(errors) = 2

----------------------------------------------------------------------------
(* Properties of the layout calculation (SpecLayout) *)

\* the characters of s that are no whitespace, in order
C6_NonWhitespace(s) == SelectSeq(s, LAMBDA c : c \notin PyWhitespace)

\* the numbers of the lines made of paragraph q
C6_LinesOf(q) == {n \in 1..Len(all_lines) : para_of[n] = q}

\* the lines made of paragraph q, concatenated
C6_Concat(q) ==
    JoinAll(SubSeq(all_lines, SetMin(C6_LinesOf(q)), SetMax(C6_LinesOf(q))))

\* the lines of every paragraph done are consecutive and none is longer
\* than the bound
C6_LinesBounded ==
    \A q \in 1..wp :
        /\ C6_LinesOf(q) # {}
        /\ C6_LinesOf(q) = SetMin(C6_LinesOf(q))..SetMax(C6_LinesOf(q))
        /\ \A n \in C6_LinesOf(q) : Len(all_lines[n]) <= max_chars_per_line

C7_Longest(ls) ==
    IF ls = <<>> THEN 0
    ELSE CHOOSE m \in {Len(ls[k]) : k \in 1..Len(ls)} :
             \A k \in 1..Len(ls) : Len(ls[k]) <= m

\* font_size * 1.2 truncated to an integer
C7_LineHeight ==
    CHOOSE h \in 0..(2 * font_size) :
        h * 10 <= font_size * 12 /\ font_size * 12 < (h + 1) * 10

\* C7: a text block of k lines whose longest line has m characters, with
\* character width c (the font size): VERTICAL has width k*c and height m*c,
\* HORIZONTAL has width m*c and height k*line_height, line_height being
\* font_size * 1.2 truncated to an integer.
C7_BlockSizing ==
    ~IsNone(text_block) =>
        LET tb == Val(text_block)
            k == Len(tb.lines)
            m == C7_Longest(tb.lines)
            c == font_size
        IN  /\ k > 0 => tb.char_width = c /\ tb.line_height = C7_LineHeight
            /\ tb.orientation = VERTICAL =>
                   tb.width = k * c /\ tb.height = m * c
            /\ tb.orientation = HORIZONTAL =>
                   tb.width = m * c /\ tb.height = k * C7_LineHeight

\* a vertical block of two columns of different lengths, for the font size
\* whose line height is truncated (16 * 1.2 = 19.2)
C7_Witness ==
    /\ lpc = "block"
    /\ font_size = 16
    /\ Val(text_block).orientation = VERTICAL
    /\ Len(Val(text_block).lines) = 2
    /\ Len(Val(text_block).lines[1]) = 3
    /\ Len(Val(text_block).lines[2]) = 1
    /\ Val(text_block).width = 32
    /\ Val(text_block).height = 48
    /\ Val(text_block).line_height = 19

\* C8: for an empty or whitespace-only text the block has width 0, height 0
\* and no lines, for either orientation, any font size and any wrap width;
\* a dialogue bubble for such a text is exactly 2 * padding wide and high.
C8_BlankTextIsEmptyBlock ==
    (~IsNone(text_block) /\ \A k \in 1..Len(text) : text[k] \in PyWhitespace)
    =>
        /\ Val(text_block).width = 0
        /\ Val(text_block).height = 0
        /\ Val(text_block).lines = <<>>
        /\ (~IsNone(layout) /\ Val(layout).kind = "bubble") =>
               /\ Val(layout).bubble_width = 2 * bubble_padding
               /\ Val(layout).bubble_height = 2 * bubble_padding
               /\ Val(layout).padding = bubble_padding

\* the bubble of a text of two whitespace characters
C8_Witness ==
    /\ lpc = "layout"
    /\ Len(text) = 2
    /\ text[1] = " "
    /\ text[2] = IDSP
    /\ Val(layout).kind = "bubble"
    /\ Val(layout).bubble_width = 40
    /\ Val(text_block).lines = <<>>

\* the places <<line, character>> (1-based) of the text block of the layout
\* that hold a character that is no whitespace
C9_Places ==
    LET ls == Val(layout).text_block.lines
    IN  UNION {{<<l, j>> : j \in {j \in 1..Len(ls[l]) :
                                     ls[l][j] \notin PyWhitespace}} :
               l \in 1..Len(ls)}

\* the number of such places up to and including pl, in line order and then
\* character order
C9_Rank(pl) ==
    Cardinality({q \in C9_Places :
                    \/ q[1] < pl[1]
                    \/ q[1] = pl[1] /\ q[2] <= pl[2]})

\* C9: get_text_character_positions returns exactly one entry per
\* non-whitespace character of the wrapped lines, in line order and then
\* character order, for both orientations; a whitespace character makes no
\* entry but moves the cursor by char_width like any other.
C9_OneEntryPerCharacter ==
    lpc = "positions" =>
        LET lay == Val(layout)
            tb == lay.text_block
        IN  /\ Len(positions) = Cardinality(C9_Places)
            /\ \A pl \in C9_Places :
                   LET e == positions[C9_Rank(pl)]
                   IN  /\ e.char = tb.lines[pl[1]][pl[2]]
                       /\ tb.orientation = VERTICAL =>
                              e.y = lay.text_y + (pl[2] - 1) * tb.char_width
                       /\ tb.orientation = HORIZONTAL =>
                              e.x = lay.text_x + (pl[2] - 1) * tb.char_width

\* a horizontal line "a b": two entries, the second two character widths
\* after the first
C9_Witness ==
    /\ lpc = "positions"
    /\ Val(layout).text_block.orientation = HORIZONTAL
    /\ Val(layout).text_block.lines = << <<"a", " ", "b">> >>
    /\ Len(positions) = 2
    /\ positions[1].char = "a"
    /\ positions[2].char = "b"
    /\ positions[2].x = positions[1].x + 2 * font_size

\* C10: in a vertical block of k lines with character width c > 0, every
\* entry of line i (0-based) has x = origin_x + (k - 1 - i) * c, so an
\* earlier line lies strictly to the right of a later one, and within a
\* line y grows by c per character, starting at origin_y.
C10_ColumnsRightToLeft ==
    (lpc = "positions" /\ Val(layout).text_block.orientation = VERTICAL) =>
        LET lay == Val(layout)
            tb == lay.text_block
            k == Len(tb.lines)
            c == tb.char_width
        IN  /\ \A pl \in C9_Places :
                   /\ positions[C9_Rank(pl)].x = lay.text_x + (k - pl[1]) * c
                   /\ positions[C9_Rank(pl)].y = lay.text_y + (pl[2] - 1) * c
            /\ \A pl \in C9_Places, ql \in C9_Places :
                   pl[1] < ql[1] =>
                       positions[C9_Rank(pl)].x > positions[C9_Rank(ql)].x

\* the bubble text "ab", "b" in two columns: the first column is the right
\* one, its second character lies one character width below its first
C10_Witness ==
    /\ lpc = "positions"
    /\ Val(layout).kind = "bubble"
    /\ Val(layout).text_block.lines = << <<"a", "b">>, <<"b">> >>
    /\ Len(positions) = 3
    /\ positions[1].x = Val(layout).text_x + font_size
    /\ positions[2].x = positions[1].x
    /\ positions[2].y = positions[1].y + font_size
    /\ positions[3].x = Val(layout).text_x
    /\ positions[3].y = Val(layout).text_y

----------------------------------------------------------------------------
(* Properties of the bubble and the narration panel (SpecPanel) *)

\* C11: in calculate_serif_bubble_layout, for either slot, whenever the
\* bubble is wider (higher) than the canvas width (height) minus twice the
\* margin, bubble_x (bubble_y) is the margin, 40: the bubble is pinned to
\* the margin and overflows, and no error is raised.
C11_OversizedBubblePinned ==
    (lpc = "layout" /\ Val(layout).kind = "bubble") =>
        LET lay == Val(layout)
        IN  /\ lay.bubble_width > canvas.width - 2 * 40 => lay.bubble_x = 40
            /\ lay.bubble_height > canvas.height - 2 * 40 => lay.bubble_y = 40

\* a bubble of two columns of 48 on the canvas of 200: 136 wide where 120
\* fit, pinned at x = 40; it is not too high, and sits at the bottom
C11_Witness ==
    /\ lpc = "layout"
    /\ Val(layout).kind = "bubble"
    /\ canvas = SmallCanvas
    /\ Val(layout).bubble_width = 136
    /\ Val(layout).bubble_x = 40
    /\ Val(layout).bubble_height = 88
    /\ Val(layout).bubble_y = 72

\* C12: for any two bubbles of identical size at an identical position
\* given to adjust_bubble_positions, the vertical span [y, y + height] of
\* the second output bubble does not intersect that of the first, for every
\* bubble height and canvas height.
C12_TwinBubblesSeparated ==
    (apc = "done" /\ Len(bubbles) = 2 /\ bubbles[1] = bubbles[2]) =>
        LET first == adjusted_bubbles[1]
            second == adjusted_bubbles[2]
        IN  \/ second.bubble_y > first.bubble_y + first.bubble_height
            \/ second.bubble_y + second.bubble_height < first.bubble_y

\* what the run does: the second bubble is clear of the first when it fits
\* below it above the bottom margin or above it below the top margin, and
\* otherwise it is put at the top margin, on the first
C12_TwinBubblesAsRun ==
    (apc = "done" /\ Len(bubbles) = 2 /\ bubbles[1] = bubbles[2]) =>
        LET first == adjusted_bubbles[1]
            second == adjusted_bubbles[2]
            y == first.bubble_y
            h == first.bubble_height
            room_below == y + h + 20 + h <= canvas.height - 40
            room_above == y - h - 20 >= 40
        IN  /\ first = bubbles[1]
            /\ room_below => second.bubble_y = y + h + 20
            /\ (~room_below /\ room_above) => second.bubble_y = y - h - 20
            /\ (~room_below /\ ~room_above) =>
                   /\ second.bubble_y = 40
                   /\ second.bubble_y <= y + h
                   /\ y <= second.bubble_y + h

\* two bubbles 88 high at y = 40 on the canvas 200 high: the second one is
\* returned at y = 40 as well
C12_TwinBubblesStacked ==
    /\ apc = "done"
    /\ canvas = SmallCanvas
    /\ Len(bubbles) = 2
    /\ bubbles[1] = bubbles[2]
    /\ bubbles[1].bubble_y = 40
    /\ bubbles[1].bubble_height = 88
    /\ adjusted_bubbles[1].bubble_y = 40
    /\ adjusted_bubbles[2].bubble_y = 40

----------------------------------------------------------------------------
(* Further properties of the parser run (Spec) *)

\* the blocks made so far, the one in progress included
C13_BlocksSoFar ==
    IF pc = "scan" THEN WithCurrent(blocks, current_block) ELSE blocks

\* the dialogue units of the lines of a block, in input order
RECURSIVE C13_Units(_)
C13_Units(raw_lines) ==
    IF raw_lines = <<>> THEN <<>>
    ELSE (IF scene_pattern_match(Head(raw_lines)) THEN <<>>
          ELSE parse_serif_text(Head(raw_lines)))
         \o C13_Units(Tail(raw_lines))

\* C13: after any prefix of the input lines every block holds at most 2
\* dialogue entries: the first unit of the block at top_right with order 1,
\* the second at bottom_left with order 2; every further unit of the block,
\* on the same or a later line, is dropped, and no warning tells of it.
C13_DialogueCap ==
    /\ \A b \in 1..Len(C13_BlocksSoFar) :
           LET block == C13_BlocksSoFar[b]
               units == C13_Units(block.raw_lines)
               kept == IF Len(units) < 2 THEN Len(units) ELSE 2
           IN  /\ Len(block.serifs) = kept
               /\ kept >= 1 =>
                      block.serifs[1] =
                          [text |-> units[1], position |-> "top_right",
                           order |-> 1]
               /\ kept = 2 =>
                      block.serifs[2] =
                          [text |-> units[2], position |-> "bottom_left",
                           order |-> 2]
    /\ ~IsNone(warnings) =>
           \A w \in 1..Len(Val(warnings)) :
               Val(warnings)[w].kind # "too_many_serifs"

\* a validated run whose only block was given three units on two lines, the
\* third on the later line, and holds the first two; nothing is warned of
C13_Witness ==
    /\ pc = "done"
    /\ Len(blocks) = 1
    /\ Len(C13_Units(blocks[1].raw_lines)) = 3
    /\ Len(blocks[1].raw_lines) = 2
    /\ Len(blocks[1].serifs) = 2
    /\ warnings = Some(<<>>)

\* the kind the fields of a block stand for
C14_Kind(block) ==
    IF /\ block.scene_number # <<>>
       /\ block.is_empty_after_scene
       /\ Len(block.serifs) = 0
       /\ \A k \in 1..Len(block.narration_text) :
              block.narration_text[k] \in PyWhitespace
    THEN "scene_only"
    ELSE IF Len(block.serifs) >= 1 THEN "scene_with_serifs"
    ELSE "narration"

\* C14: after parse_lines the kind of every block that is no page break is
\* a function of its fields alone, whatever kind it held during the scan:
\* SCENE_ONLY if it has a scene identifier, the blank-after-tag flag, no
\* dialogue and no non-blank caption text; otherwise SCENE_WITH_SERIFS if it
\* has a dialogue entry; otherwise NARRATION.
C14_KindFromFields ==
    pc \in {"generate", "done"} =>
        \A b \in 1..Len(blocks) :
            blocks[b].block_type # "page_break" =>
                blocks[b].block_type = C14_Kind(blocks[b])

\* a scene block that got a dialogue line after the blank line: it was
\* SCENE_ONLY all through the scan and is SCENE_WITH_SERIFS when returned
C14_Witness ==
    /\ pc = "generate"
    /\ Len(blocks) = 1
    /\ ~IsNone(current_block)
    /\ Val(current_block).block_type = "scene_only"
    /\ Val(current_block).is_empty_after_scene
    /\ Len(Val(current_block).serifs) = 1
    /\ blocks[1].block_type = "scene_with_serifs"
    /\ blocks[1].raw_lines = Val(current_block).raw_lines

\* the places of s that hold no whitespace
C15_Inked(s) == {k \in 1..Len(s) : s[k] \notin PyWhitespace}

\* s without the whitespace before its first and after its last character
\* that is none
C15_Trimmed(s) ==
    IF C15_Inked(s) = {} THEN <<>>
    ELSE [k \in 1..(SetMax(C15_Inked(s)) - SetMin(C15_Inked(s)) + 1) |->
              s[SetMin(C15_Inked(s)) + k - 1]]

\* the numbers of the instructions block b emitted
C15_Own(b) == {n \in 1..Len(output_blocks) : emitted_by[n] = b}

\* C15: each block that is no page break emits one instruction, except that
\* a SCENE_WITH_SERIFS block whose caption text is non-blank emits two: its
\* image_with_serifs instruction and, immediately after it with no other
\* block's instruction in between, a narration instruction with the same
\* effective scene identifier and the trimmed caption text.
C15_OneOrTwoInstructions ==
    pc = "done" =>
        \A b \in 1..Len(blocks) :
            LET block == blocks[b]
                own == C15_Own(b)
            IN  IF block.block_type = "page_break" THEN own = {}
                ELSE IF /\ block.block_type = "scene_with_serifs"
                        /\ C15_Inked(block.narration_text) # {}
                THEN \E n \in 1..(Len(output_blocks) - 1) :
                         /\ own = {n, n + 1}
                         /\ output_blocks[n].type = "image_with_serifs"
                         /\ output_blocks[n].serifs = block.serifs
                         /\ output_blocks[n + 1].type = "narration"
                         /\ output_blocks[n + 1].scene_number
                                = output_blocks[n].scene_number
                         /\ output_blocks[n + 1].narration
                                = C15_Trimmed(block.narration_text)
                ELSE Cardinality(own) = 1

\* three blocks of which the middle one has serifs and the caption " x" and
\* no identifier: four instructions, the middle two its own, both with the
\* identifier of the first block
C15_Witness ==
    /\ pc = "done"
    /\ Len(blocks) = 3
    /\ blocks[2].block_type = "scene_with_serifs"
    /\ blocks[2].narration_text = <<" ", "x">>
    /\ IsNone(blocks[2].scene_number)
    /\ ~IsNone(blocks[1].scene_number)
    /\ emitted_by = <<1, 2, 2, 3>>
    /\ output_blocks[3].narration = <<"x">>
    /\ output_blocks[3].scene_number = blocks[1].scene_number

\* a line holds no character but whitespace
C16_IsBlank(line) == \A k \in 1..Len(line) : line[k] \in PyWhitespace

\* a line is neither blank nor, once stripped, a scene tag or a [para] tag
C16_IsTextLine(line) ==
    /\ ~C16_IsBlank(line)
    /\ ~scene_pattern_match(Strip(line))
    /\ ~para_pattern_match(Strip(line))

\* what one pass of the loop is to add to the cursor at line i (0-based):
\* two when the line is a scene tag and a blank line follows it, else one
C16_Stride ==
    IF /\ scene_pattern_match(Strip(lines[i + 1]))
       /\ i + 2 <= Len(lines)
       /\ C16_IsBlank(lines[i + 2])
    THEN 2 ELSE 1

\* the raw lines of the blocks one after another
RECURSIVE C16_RawLines(_)
C16_RawLines(bs) ==
    IF bs = <<>> THEN <<>>
    ELSE Head(bs).raw_lines \o C16_RawLines(Tail(bs))

\* the stripped text lines among the first n lines
RECURSIVE C16_TextLines(_)
C16_TextLines(n) ==
    IF n = 0 THEN <<>>
    ELSE C16_TextLines(n - 1)
         \o (IF C16_IsTextLine(lines[n]) THEN <<Strip(lines[n])>> ELSE <<>>)

\* the blocks made so far, the one in progress included
C16_BlocksSoFar ==
    IF pc = "scan" THEN WithCurrent(blocks, current_block) ELSE blocks

\* each pass of the loop moves the cursor forward by the stride and never
\* past the end
C16_CursorAdvances ==
    [][pc = "scan" /\ pc' = "scan"
           => i' = i + C16_Stride /\ i' <= Len(lines)]_vars

\* the text lines read so far are, in their order, the text lines held by the
\* blocks: each is in one block, once
C16_EachTextLineInOneBlock ==
    SelectSeq(C16_RawLines(C16_BlocksSoFar), C16_IsTextLine)
        = C16_TextLines(IF pc = "scan" THEN i ELSE Len(lines))

\* a text line met while no block is in progress opens a block without scene
\* identifier that holds the line; it is a NARRATION block with the line as
\* its text unless the line holds dialogue
C16_OpensNarration ==
    [][pc = "scan" /\ i < Len(lines) /\ IsNone(current_block)
           /\ C16_IsTextLine(lines[i + 1])
           => /\ ~IsNone(current_block')
              /\ blocks' = blocks
              /\ IsNone(Val(current_block').scene_number)
              /\ Val(current_block').raw_lines = <<Strip(lines[i + 1])>>
              /\ parse_serif_text(Strip(lines[i + 1])) = <<>>
                     => /\ Val(current_block').block_type = "narration"
                        /\ Val(current_block').narration_text
                               = Strip(lines[i + 1])]_vars

\* the loop is left
C16_Terminates == <>(pc # "scan")

\* C16: parse_lines terminates without error on every finite sequence of
\* lines: each loop iteration advances the cursor by one line, or by two when
\* a scene tag is followed by a blank line, and every line that is neither a
\* tag nor blank ends up in exactly one block, opening a NARRATION block with
\* no scene identifier when no block is in progress.
C16_ParseLinesTerminates ==
    /\ C16_CursorAdvances
    /\ C16_OpensNarration
    /\ []C16_EachTextLineInOneBlock
    /\ C16_Terminates

\* a text line, then a scene tag followed by a blank line: the text line
\* opened a NARRATION block without identifier, the tag and the blank line
\* were taken in one pass, and the loop has ended
C16_Witness ==
    /\ pc = "generate"
    /\ Len(lines) = 3
    /\ C16_IsTextLine(lines[1])
    /\ scene_pattern_match(Strip(lines[2]))
    /\ C16_IsBlank(lines[3])
    /\ i = 3
    /\ Len(blocks) = 2
    /\ blocks[1].block_type = "narration"
    /\ IsNone(blocks[1].scene_number)
    /\ blocks[1].raw_lines = <<Strip(lines[1])>>
    /\ blocks[2].is_empty_after_scene
    /\ blocks[2].raw_lines = <<Strip(lines[2]), lines[3]>>

\* the latest iteration called a render_* method of the given kinds in which
\* nothing raised, with a scene number that is unset or has no image
C17_CallWithoutBackground(kinds) ==
    /\ ~IsNone(rendered)
    /\ Val(rendered).type \in kinds
    /\ ~Val(rendered).fault
    /\ \/ IsNone(Val(rendered).scene_number)
       \/ Val(Val(rendered).scene_number) \notin images

\* the sequence index the latest iteration ran under
C17_Index == calls[Len(calls)].index

\* the latest call made the white canvas, wrote the file of its index and
\* was reported as successful: it returned True and errors has no entry for it
C17_WhiteAndWritten ==
    /\ Val(rendered).result.base = "white"
    /\ Val(rendered).result.saved = {ZeroPad3(C17_Index)}
    /\ ZeroPad3(C17_Index) \in files
    /\ Val(rendered).result.success
    /\ calls[Len(calls)].outcome = "ok"
    /\ \A e \in 1..Len(errors) : errors[e].index # C17_Index

C17_ImageOnlyFails ==
    /\ C17_CallWithoutBackground({"image_only"})
    /\ IsNone(Val(rendered).scene_number)
    /\ files = {}
    /\ errors = <<ErrorEntry(1, "failed")>>

\* a narration layout has been calculated
C18_NarrationDone == lpc = "layout" /\ Val(layout).kind = "narration"

\* the text starts at or after the panel's left edge plus the padding (30)
C18_LeftInside == Val(layout).bg_x + 30 <= Val(layout).text_x

\* the text ends at or before the panel's right edge minus the padding
C18_RightInside ==
    Val(layout).text_x + Val(layout).text_block.width
        <= Val(layout).bg_x + Val(layout).bg_width - 30

\* C18: for every NarrationLayout returned by calculate_narration_layout,
\* for every alignment, orientation, font size and wrap width, the text never
\* overflows the panel horizontally: panel_x + padding <= text_x and
\* text_x + text_width <= panel_x + panel_width - padding.
C18_TextInsidePanel == C18_NarrationDone => C18_LeftInside /\ C18_RightInside

\* what the code does: the left bound always holds, and the right one exactly
\* when the text block is no wider than the panel less twice the padding;
\* a wider block starts at the left bound and runs over the right one
C18_TextInsidePanelAsRun ==
    C18_NarrationDone =>
        /\ C18_LeftInside
        /\ C18_RightInside
               <=> Val(layout).text_block.width <= Val(layout).bg_width - 2 * 30
        /\ ~C18_RightInside => Val(layout).text_x = Val(layout).bg_x + 30

\* one character of 48 pixels on the canvas of 200: the panel is 80 wide and
\* starts at 60, the text starts at 90 and ends at 138, beyond the panel's
\* inner right edge (110)
C18_Overflow ==
    /\ C18_NarrationDone
    /\ canvas = SmallCanvas
    /\ Val(layout).bg_x = 60
    /\ Val(layout).bg_width = 80
    /\ Val(layout).text_block.width = 48
    /\ Val(layout).text_x = 90
    /\ ~C18_RightInside

----------------------------------------------------------------------------
(* Properties of the glyph substitution (SpecDraw) *)

\* the glyph the claim gives for a character
C19_Glyph(char) ==
    CASE char \in {"U+30FC", "U+2212", "U+2015", "U+2500"} -> "U+FF5C"
      [] char \in {"U+2026", "U+22EF"} -> "U+FE19"
      [] char \in {"U+301C", "U+FF5E"} -> "U+FE34"
      [] OTHER -> char

\* C19: glyph substitution before drawing vertical dialogue text maps each of
\* the prolonged sound mark, the minus sign, the horizontal bar and the light
\* horizontal box line to the fullwidth vertical line, each of the two
\* ellipses to the vertical ellipsis form, each of the wave dash and the
\* fullwidth tilde to the vertical wavy line, and returns every other
\* character unchanged; applying it to its own output changes nothing.
\* Every character is drawn at its own position as the glyph the table gives.
C19_GlyphSubstitution ==
    /\ Len(drawn) <= Len(to_draw)
    /\ \A k \in 1..Len(drawn) :
           /\ drawn[k].x = to_draw[k].x
           /\ drawn[k].y = to_draw[k].y
           /\ drawn[k].char = C19_Glyph(to_draw[k].char)
           /\ convert_char_for_vertical(drawn[k].char) = drawn[k].char
    /\ dpc = "done" => Len(drawn) = Len(to_draw)

\* a prolonged sound mark and a fullwidth bracket were drawn: the first as
\* the fullwidth vertical line, the second as itself
C19_Witness ==
    /\ dpc = "done"
    /\ Len(to_draw) = 2
    /\ to_draw[1].char = "U+30FC"
    /\ to_draw[2].char = "U+FF08"
    /\ drawn[1].char = "U+FF5C"
    /\ drawn[2].char = "U+FF08"

----------------------------------------------------------------------------
(* Caption text before the first dialogue line (Spec) *)

\* the raw lines of a block that hold dialogue that counts
C20_DialogueLines(block) ==
    {k \in 1..Len(block.raw_lines) :
         parse_serif_text(Strip(block.raw_lines[k])) # <<>>}

\* the raw lines of a block that are caption text: neither blank nor a tag
\* nor dialogue
C20_CaptionLines(block) ==
    {k \in 1..Len(block.raw_lines) :
         /\ C16_IsTextLine(block.raw_lines[k])
         /\ k \notin C20_DialogueLines(block)}

\* the block had taken caption text when its first dialogue line arrived
C20_CaptionBeforeDialogue(block) ==
    /\ C20_DialogueLines(block) # {}
    /\ \E k \in C20_CaptionLines(block) :
           k < SetMin(C20_DialogueLines(block))

\* the kinds of the instructions block b emitted, in their order
C20_EmittedKinds(b) ==
    LET own == {n \in 1..Len(output_blocks) : emitted_by[n] = b}
    IN  [k \in 1..Cardinality(own) |->
            output_blocks[SetMin(own) + k - 1].type]

\* C20 as stated: a scene-tagged block that has already accumulated
\* non-blank caption text when its first dialogue line arrives is not
\* reclassified to dialogue: after finalization it is NARRATION and it emits
\* a narration instruction, not an image_with_dialogue instruction; a block
\* without a scene identifier in the same situation is always reclassified
\* to dialogue.
C20_CaptionKeepsSceneBlockNarration ==
    pc = "done" =>
        \A b \in 1..Len(blocks) :
            C20_CaptionBeforeDialogue(blocks[b]) =>
                IF ~IsNone(blocks[b].scene_number)
                THEN /\ blocks[b].block_type = "narration"
                     /\ C20_EmittedKinds(b) = <<"narration">>
                ELSE blocks[b].block_type = "scene_with_serifs"

\* C20, amended: a block that has already accumulated non-blank caption text
\* when its first dialogue line arrives is a dialogue block after
\* finalization, with or without a scene identifier: it is SCENE_WITH_SERIFS
\* and emits an image_with_dialogue instruction and then a narration
\* instruction with its caption.
C20_CaptionThenDialogueIsDialogue ==
    pc = "done" =>
        \A b \in 1..Len(blocks) :
            C20_CaptionBeforeDialogue(blocks[b]) =>
                /\ blocks[b].block_type = "scene_with_serifs"
                /\ blocks[b].serifs # <<>>
                /\ C20_EmittedKinds(b) = <<"image_with_serifs", "narration">>

\* a scene tag, a caption line, a dialogue line: one block with the scene
\* number, the caption and the serif, finalized as SCENE_WITH_SERIFS, and the
\* two instructions
C20_Witness ==
    /\ pc = "done"
    /\ lines = <<Str_scene1, <<"x">>, Str_serifA>>
    /\ Len(blocks) = 1
    /\ C20_CaptionBeforeDialogue(blocks[1])
    /\ ~IsNone(blocks[1].scene_number)
    /\ blocks[1].narration_text = <<"x">>
    /\ blocks[1].block_type = "scene_with_serifs"
    /\ Len(output_blocks) = 2
    /\ output_blocks[1].type = "image_with_serifs"
    /\ output_blocks[2].type = "narration"
    /\ output_blocks[2].narration = <<"x">>

\* the same without scene tag: a caption line, then a dialogue line
C20_WitnessNoScene ==
    /\ pc = "done"
    /\ Len(blocks) = 1
    /\ C20_CaptionBeforeDialogue(blocks[1])
    /\ IsNone(blocks[1].scene_number)
    /\ blocks[1].block_type = "scene_with_serifs"

----------------------------------------------------------------------------
(* Caption text and the text outside the quotation marks (Spec) *)

\* the contents of the quoted spans of a line: what stands between an
\* opening mark and the first closing mark after it
C21_Spans(line) ==
    {SubSeq(line, oc[1] + 1, oc[2] - 1) :
         oc \in {p \in (1..Len(line)) \X (1..Len(line)) :
                    /\ line[p[1]] = OQ
                    /\ line[p[2]] = CQ
                    /\ p[1] < p[2]
                    /\ \A k \in (p[1] + 1)..(p[2] - 1) : line[k] # CQ}}

\* a line holds a span that is not empty
C21_HasNonEmptySpan(line) == \E sp \in C21_Spans(line) : sp # <<>>

\* a line holds a span that is not blank: not empty once trimmed
C21_HasNonBlankSpan(line) == \E sp \in C21_Spans(line) : ~C16_IsBlank(sp)

\* lines joined by newlines
RECURSIVE C21_Join(_)
C21_Join(ls) ==
    IF ls = <<>> THEN <<>>
    ELSE IF Len(ls) = 1 THEN ls[1]
    ELSE ls[1] \o <<NL>> \o C21_Join(Tail(ls))

\* the text lines of a block, in input order, that IsDialogue rejects
C21_CaptionLines(block, IsDialogue(_)) ==
    SelectSeq(block.raw_lines,
              LAMBDA l : C16_IsTextLine(l) /\ ~IsDialogue(l))

\* the trimmed spans of the lines of a block
C21_TrimmedSpans(block) ==
    UNION {{C15_Trimmed(sp) : sp \in C21_Spans(block.raw_lines[k])} :
               k \in 1..Len(block.raw_lines)}

\* the caption text of every block is the newline-joined text lines that
\* IsDialogue rejects, and what reaches the instructions is the trimmed
\* caption text and trimmed spans only
C21_CaptionIsTheOtherLines(IsDialogue(_)) ==
    /\ \A b \in 1..Len(C16_BlocksSoFar) :
           C16_BlocksSoFar[b].narration_text
               = C21_Join(C21_CaptionLines(C16_BlocksSoFar[b], IsDialogue))
    /\ pc = "done" =>
           \A n \in 1..Len(output_blocks) :
               LET block == blocks[emitted_by[n]]
               IN  /\ output_blocks[n].narration
                          \in {<<>>, C15_Trimmed(block.narration_text)}
                   /\ \A k \in 1..Len(output_blocks[n].serifs) :
                          output_blocks[n].serifs[k].text
                              \in C21_TrimmedSpans(block)

\* C21 as stated: a non-blank, non-tag line is appended (newline-joined, in
\* input order) to its block's caption text if and only if it contains no
\* non-empty quoted span; on a line that contains at least one non-empty
\* span nothing is added to the caption, so the text outside the quotation
\* marks on that line appears in no output instruction.
C21_CaptionIffNoNonEmptySpan ==
    C21_CaptionIsTheOtherLines(C21_HasNonEmptySpan)

\* C21, amended: a non-blank, non-tag line is appended (newline-joined, in
\* input order) to its block's caption text if and only if it contains no
\* quoted span that is non-blank after trimming; on a line that contains at
\* least one such span nothing is added to the caption, so the text outside
\* the quotation marks on that line appears in no output instruction.
C21_CaptionIffNoNonBlankSpan ==
    C21_CaptionIsTheOtherLines(C21_HasNonBlankSpan)

\* a caption line, then a line with text outside two spans: the caption is
\* the first line alone and the outside text is in no instruction
C21_Witness ==
    /\ pc = "done"
    /\ lines = <<<<"x">>, Str_x_serifAB>>
    /\ Len(blocks) = 1
    /\ blocks[1].narration_text = <<"x">>
    /\ Len(output_blocks) = 2
    /\ output_blocks[1].type = "image_with_serifs"
    /\ Len(output_blocks[1].serifs) = 2
    /\ output_blocks[1].serifs[1].text = <<"A">>
    /\ output_blocks[1].serifs[2].text = <<"B">>
    /\ output_blocks[2].narration = <<"x">>

\* a line whose only span is a space: it is caption text
C21_WitnessBlankSpan ==
    /\ pc = "done"
    /\ lines = <<<<"x">>, Str_blank_serif>>
    /\ Len(blocks) = 1
    /\ C21_HasNonEmptySpan(blocks[1].raw_lines[2])
    /\ blocks[1].narration_text = <<"x", NL>> \o Str_blank_serif
    /\ blocks[1].serifs = <<>>

----------------------------------------------------------------------------
(* The warnings of validate_text_structure on parsed blocks (Spec) *)

\* the blocks whose scene identifier is that of an earlier block
C22_Repeats ==
    {b \in 1..Len(blocks) :
         /\ ~IsNone(blocks[b].scene_number)
         /\ \E a \in 1..(b - 1) :
                blocks[a].scene_number = blocks[b].scene_number}

\* the k-th smallest member of a set of numbers
RECURSIVE C22_Nth(_, _)
C22_Nth(S, k) ==
    IF k = 1 THEN SetMin(S) ELSE C22_Nth(S \ {SetMin(S)}, k - 1)

\* one duplicate-identifier warning for each such block, in block order
C22_Expected ==
    [k \in 1..Cardinality(C22_Repeats) |->
        Warning("duplicate", 0,
                blocks[C22_Nth(C22_Repeats, k)].scene_number, 0)]

\* the instructions of the blocks from index k on, csn being the scene
\* number in force
RECURSIVE C22_Generated(_, _)
C22_Generated(k, csn) ==
    IF k > Len(blocks) THEN <<>>
    ELSE IF blocks[k].block_type = PAGE_BREAK THEN C22_Generated(k + 1, csn)
    ELSE BlockOutput(blocks[k], NextSceneNumber(blocks[k], csn))
         \o C22_Generated(k + 1, NextSceneNumber(blocks[k], csn))

\* C22: on blocks produced by parse_lines, the warning list of
\* validate_text_structure is exactly one duplicate-identifier warning for
\* each block whose scene identifier already appeared in an earlier block,
\* in block order; the over-capacity and empty-dialogue warnings are never
\* produced, and validation changes neither the blocks nor the instructions
\* generated from them.
C22_OnlyDuplicateWarnings ==
    /\ [](~IsNone(warnings) =>
              /\ Val(warnings) = C22_Expected
              /\ \A w \in 1..Len(Val(warnings)) :
                     Val(warnings)[w].kind = "duplicate")
    /\ [][Validate => /\ blocks' = blocks
                      /\ output_blocks' = output_blocks]_vars
    /\ [](pc = "done" =>
              output_blocks = C22_Generated(1, None))

\* three scene tags, the third repeating the first: one warning, naming the
\* repeated identifier, and the blocks and instructions as without validation
C22_Witness ==
    /\ pc = "done"
    /\ lines = <<Str_scene1, Str_SCENE2x, Str_scene1>>
    /\ Len(blocks) = 3
    /\ ~IsNone(warnings)
    /\ Len(Val(warnings)) = 1
    /\ Val(warnings)[1].kind = "duplicate"
    /\ Val(warnings)[1].scene_number = blocks[1].scene_number
    /\ Len(output_blocks) = 3

----------------------------------------------------------------------------
(* Where a dialogue panel that fits is placed (SpecPanel) *)

\* the panel is no wider and no higher than the canvas less the margin of 40
\* on both sides
C23_Fits(lay) ==
    /\ lay.bubble_width <= canvas.width - 2 * 40
    /\ lay.bubble_height <= canvas.height - 2 * 40

\* the panel rectangle lies inside the canvas inset by 40 on all four sides
C23_InsideInset(lay) ==
    /\ lay.bubble_x >= 40
    /\ lay.bubble_y >= 40
    /\ lay.bubble_x + lay.bubble_width <= canvas.width - 40
    /\ lay.bubble_y + lay.bubble_height <= canvas.height - 40

\* C23: when the dialogue panel fits (panel width <= canvas width - 2*40 and
\* panel height <= canvas height - 2*40), calculate_serif_bubble_layout
\* places a first-slot panel at x = canvas_width - panel_width - 40, y = 40
\* and a second-slot panel at x = 40, y = canvas_height - panel_height - 40,
\* and the panel rectangle lies entirely inside the canvas inset by the 40px
\* margin on all four sides.
C23_FittingPanelPlacement ==
    [][CalcSerifBubble =>
          \A position \in {"top_right", "bottom_left"} :
              (/\ layout' = Some(SerifBubbleLayout(Val(text_block'), position))
               /\ C23_Fits(Val(layout'))) =>
                  LET lay == Val(layout')
                  IN  /\ position = "top_right" =>
                             /\ lay.bubble_x
                                    = canvas.width - lay.bubble_width - 40
                             /\ lay.bubble_y = 40
                      /\ position = "bottom_left" =>
                             /\ lay.bubble_x = 40
                             /\ lay.bubble_y
                                    = canvas.height - lay.bubble_height - 40
                      /\ C23_InsideInset(lay)]_vars

\* a fitting panel of the second slot on the default canvas: at the left
\* margin, its lower edge at the bottom margin
C23_Witness ==
    /\ lpc = "layout"
    /\ Val(layout).kind = "bubble"
    /\ canvas.width = 960
    /\ C23_Fits(Val(layout))
    /\ Val(layout).bubble_x = 40
    /\ Val(layout).bubble_y = 1280 - Val(layout).bubble_height - 40
    /\ Val(layout).bubble_y > 40
    /\ C23_InsideInset(Val(layout))

\* a fitting panel of the first slot: at the right margin and the top margin
C23_WitnessFirstSlot ==
    /\ lpc = "layout"
    /\ Val(layout).kind = "bubble"
    /\ canvas.width = 960
    /\ C23_Fits(Val(layout))
    /\ Val(layout).bubble_x = 960 - Val(layout).bubble_width - 40
    /\ Val(layout).bubble_x > 40
    /\ Val(layout).bubble_y = 40

----------------------------------------------------------------------------
(* The padding relation of a bubble, kept by the adjustment (SpecBubbles) *)

\* the panel is the text block and 2*20 on both axes, the text origin the
\* panel origin and 20 on both axes
C24_Padded(b) ==
    /\ b.bubble_width = b.text_block.width + 2 * 20
    /\ b.bubble_height = b.text_block.height + 2 * 20
    /\ b.text_x = b.bubble_x + 20
    /\ b.text_y = b.bubble_y + 20

\* C24: every BubbleLayout returned by calculate_serif_bubble_layout has
\* panel size = text-block size + 2*20 on both axes and text origin = panel
\* origin + 20 on both axes, and this relation still holds for every bubble
\* returned by adjust_bubble_positions when it held for its inputs,
\* including bubbles that were displaced.
C24_PaddingRelation ==
    /\ (lpc = "layout" /\ Val(layout).kind = "bubble") => C24_Padded(Val(layout))
    /\ (\A k \in 1..Len(bubbles) : C24_Padded(bubbles[k])) =>
           \A k \in 1..Len(adjusted_bubbles) : C24_Padded(adjusted_bubbles[k])

\* two layouts of the same text in the same slot: the second is returned
\* displaced, and padded as before
C24_Witness ==
    /\ apc = "done"
    /\ Len(bubbles) = 2
    /\ bubbles[1] = bubbles[2]
    /\ bubbles[1].text_block.width > 0
    /\ adjusted_bubbles[2].bubble_y # bubbles[2].bubble_y
    /\ C24_Padded(adjusted_bubbles[2])

----------------------------------------------------------------------------
(* What adjust_bubble_positions keeps (SpecAdjust) *)

\* two panels share a point: their spans meet on both axes, edges included
C25_Overlap(a, b) ==
    /\ a.bubble_x <= b.bubble_x + b.bubble_width
    /\ b.bubble_x <= a.bubble_x + a.bubble_width
    /\ a.bubble_y <= b.bubble_y + b.bubble_height
    /\ b.bubble_y <= a.bubble_y + a.bubble_height

\* everything of a bubble but y and text y
C25_Kept(b) ==
    <<b.text_block, b.bubble_x, b.bubble_width, b.bubble_height, b.text_x,
      b.padding>>

\* C25: adjust_bubble_positions returns as many bubbles as it was given, in
\* the same order; each output bubble keeps the text block, x, width,
\* height, text x and padding of the input at the same index, only y and
\* text y may differ; the first bubble is never moved, and a bubble that
\* overlaps no earlier output bubble is returned unchanged.
C25_AdjustKeepsAllButY ==
    apc = "done" =>
        /\ Len(adjusted_bubbles) = Len(bubbles)
        /\ \A k \in 1..Len(bubbles) :
               /\ C25_Kept(adjusted_bubbles[k]) = C25_Kept(bubbles[k])
               /\ k = 1 => adjusted_bubbles[k] = bubbles[k]
               /\ (\A j \in 1..(k - 1) :
                       ~C25_Overlap(bubbles[k], adjusted_bubbles[j]))
                      => adjusted_bubbles[k] = bubbles[k]

\* three bubbles, the second on the first and the third beside them: the
\* second is returned lower, the first and the third as they were
C25_Witness ==
    /\ apc = "done"
    /\ Len(bubbles) = 3
    /\ bubbles[2] = bubbles[1]
    /\ ~C25_Overlap(bubbles[3], adjusted_bubbles[1])
    /\ ~C25_Overlap(bubbles[3], adjusted_bubbles[2])
    /\ adjusted_bubbles[1] = bubbles[1]
    /\ adjusted_bubbles[2].bubble_y > bubbles[2].bubble_y
    /\ adjusted_bubbles[2].text_y > bubbles[2].text_y
    /\ adjusted_bubbles[3] = bubbles[3]

----------------------------------------------------------------------------
(* The order of the drawing steps of one image_with_serifs (SpecSerifs) *)

\* the place of an operation in the order: the background, then for the
\* serifs in list order the fill, the border and the glyphs, then the
\* flatten, then the save
C26_Place(o) ==
    IF o.op = "background" THEN 0
    ELSE IF o.op = "fill" THEN 3 * o.entry
    ELSE IF o.op = "border" THEN 3 * o.entry + 1
    ELSE IF o.op = "glyphs" THEN 3 * o.entry + 2
    ELSE IF o.op = "flatten" THEN 3 * Len(serif_list) + 3
    ELSE 3 * Len(serif_list) + 4

\* C26: within the rendering of one image_with_dialogue instruction the
\* drawing steps occur in a fixed order: the background is resolved first;
\* then, for each dialogue entry with non-blank text in list order, the
\* panel fill, then the border, then the glyphs (so the second entry's panel
\* is drawn after the first entry's glyphs); the flatten to an opaque image
\* comes after all drawing, and the file is written last and at most once.
C26_DrawingOrder ==
    /\ ops # <<>> => ops[1].op = "background"
    /\ \A p, q \in 1..Len(ops) :
           p < q => C26_Place(ops[p]) < C26_Place(ops[q])
    /\ \A p \in 1..Len(ops) :
           /\ ops[p].op \in {"background", "fill", "border", "glyphs",
                             "flatten", "save"}
           /\ ops[p].op \in {"fill", "border", "glyphs"} =>
                  /\ ops[p].entry \in 1..Len(serif_list)
                  /\ \E c \in 1..Len(serif_list[ops[p].entry]) :
                         serif_list[ops[p].entry][c] \notin PyWhitespace
           /\ ops[p].op = "save" => p = Len(ops)
    /\ serif_result = Some(TRUE) =>
           /\ Len(ops) >= 3
           /\ ops[Len(ops) - 1].op = "flatten"
           /\ ops[Len(ops)].op = "save"

\* two serifs, nothing raised: the background, the panel, border and glyphs
\* of the first, those of the second, the flatten, the save
C26_Witness ==
    /\ spc = "return"
    /\ serif_list = <<<<"a">>, <<"a">>>>
    /\ raised_in = {}
    /\ ops = <<DrawOp("background", 0),
               DrawOp("fill", 1), DrawOp("border", 1), DrawOp("glyphs", 1),
               DrawOp("fill", 2), DrawOp("border", 2), DrawOp("glyphs", 2),
               DrawOp("flatten", 0), DrawOp("save", 0)>>
    /\ serif_result = Some(TRUE)

\* a blank serif before a serif: only the second is drawn
C26_WitnessBlankSkipped ==
    /\ spc = "return"
    /\ serif_list = <<<<" ">>, <<"a">>>>
    /\ raised_in = {}
    /\ Len(ops) = 6
    /\ ops[2] = DrawOp("fill", 2)

----------------------------------------------------------------------------
(* Exceptions while one instruction is drawn (SpecSerifs) *)

\* C27: any exception raised while drawing one instruction, including one
\* raised inside the panel, border or glyph drawing steps (for example by an
\* invalid color value in the style), makes that instruction report failure
\* and adds one failure entry to the run result, and the following
\* instructions are still rendered.
C27_AnyExceptionFailsInstruction ==
    [][(SerifsReturn /\ raised_in # {}) =>
           /\ serif_result = Some(FALSE)
           /\ errors' = Append(errors, ErrorEntry(index, "failed"))
           /\ index' = index + 1
           /\ rpc' = "loop"]_vars

\* an invalid serif_bg_color: the exception is raised and caught inside
\* draw_bubble_background, the glyphs are drawn without panel, the file is
\* written and the instruction reports success
C27_SwallowedColorError ==
    /\ spc = "return"
    /\ ~settings.serif_bg_color
    /\ serif_list = <<<<"a">>>>
    /\ raised_in = {"fill"}
    /\ ops = <<DrawOp("background", 0), DrawOp("glyphs", 1),
               DrawOp("flatten", 0), DrawOp("save", 0)>>
    /\ serif_result = Some(TRUE)
    /\ errors = <<>>

\* what does hold: an exception outside the three drawing methods makes
\* the instruction report failure, one entry is added, nothing is written
\* and the loop goes on with the next index
C27_OuterExceptionFailsInstruction ==
    [][(SerifsReturn /\ raised_in \cap {"background", "layout", "flatten",
                                        "save"} # {}) =>
           /\ serif_result = Some(FALSE)
           /\ errors' = Append(errors, ErrorEntry(index, "failed"))
           /\ generate_output_filename(index) \notin files
           /\ index' = index + 1
           /\ rpc' = "loop"]_vars

----------------------------------------------------------------------------
(* Where the lines of a narration are drawn (SpecNarration) *)

\* the rows drawn so far are the non-blank lines among the rows passed, in
\* their order
C28_RowsDrawn ==
    LET ls == Val(layout).text_block.lines
        inked == {r \in 0..(hline - 1) :
                     \E c \in 1..Len(ls[r + 1]) :
                         ls[r + 1][c] \notin PyWhitespace}
    IN  /\ Len(hdrawn) = Cardinality(inked)
        /\ \A k \in 1..Len(hdrawn) :
               /\ hdrawn[k].row \in inked
               /\ hdrawn[k].line = ls[hdrawn[k].row + 1]
               /\ \A j \in 1..(k - 1) : hdrawn[j].row < hdrawn[k].row

\* C28: when a narration instruction is drawn, every non-blank wrapped line
\* with row index i is drawn at x = the NarrationLayout's alignment-resolved
\* text x and y = text_y + i*line_height, for each of the alignments left,
\* center and right; blank lines are not drawn but still advance y by
\* line_height.
C28_LinesAtTextX ==
    hpc \in {"draw", "returned"} =>
        /\ C28_RowsDrawn
        /\ \A k \in 1..Len(hdrawn) :
               /\ hdrawn[k].x = Val(layout).text_x
               /\ hdrawn[k].y = Val(layout).text_y
                      + hdrawn[k].row * Val(layout).text_block.line_height

\* right alignment, the lines "ab" and "a": the second is drawn one
\* character to the right of text_x, flush with the first at the right
C28_RightAlignedShortLine ==
    /\ hpc = "returned"
    /\ Val(layout).alignment = "right"
    /\ Val(layout).text_block.lines = <<<<"a", "b">>, <<"a">>>>
    /\ Len(hdrawn) = 2
    /\ hdrawn[1].x = Val(layout).text_x
    /\ hdrawn[2].x = Val(layout).text_x + Val(layout).text_block.char_width

\* center alignment, the lines "aaaa" and "a" at font size 48: text_x is
\* 384, the second line is drawn at 396, the centre of the panel being 480
C28_CenteredShortLine ==
    /\ hpc = "returned"
    /\ Val(layout).alignment = "center"
    /\ font_size = 48
    /\ Val(layout).text_block.lines = <<<<"a", "a", "a", "a">>, <<"a">>>>
    /\ Val(layout).text_x = 384
    /\ Len(hdrawn) = 2
    /\ hdrawn[1].x = 384
    /\ hdrawn[2].x = 396

\* what does hold: the rows drawn are the non-blank lines, each at
\* y = text_y + i*line_height, blank lines advancing y; with left alignment
\* every line is drawn at text_x, and with any alignment a line as wide as
\* the block is
C28_RowsAndLeftX ==
    hpc \in {"draw", "returned"} =>
        /\ C28_RowsDrawn
        /\ hcurrent_y = Val(layout).text_y
               + hline * Val(layout).text_block.line_height
        /\ \A k \in 1..Len(hdrawn) :
               /\ hdrawn[k].y = Val(layout).text_y
                      + hdrawn[k].row * Val(layout).text_block.line_height
               /\ Val(layout).alignment = "left" =>
                      hdrawn[k].x = Val(layout).text_x

\* a blank line between two lines: rows 0 and 2 are drawn, two line heights
\* apart
C28_BlankLineAdvances ==
    /\ hpc = "returned"
    /\ Val(layout).text_block.lines = <<<<"a">>, <<>>, <<"b">>>>
    /\ Len(hdrawn) = 2
    /\ hdrawn[2].row = 2
    /\ hdrawn[2].y = hdrawn[1].y + 2 * Val(layout).text_block.line_height

----------------------------------------------------------------------------
(* One generation at a time (SpecGui) *)

\* the workers that have not yet given the callbacks of their finally
\* clause to the event loop: those still at parsing, rendering or reporting
C29_Generating ==
    {w \in 1..Len(workers) :
         workers[w].pc \in {"begin", "run", "report", "finally"}}

\* the worker threads that have not ended
C29_Alive == {w \in 1..Len(workers) : workers[w].pc # "ended"}

\* how the flag is handled: a request passes the guard only while
\* is_processing is false; the flag is set on the UI thread before the
\* thread is started; it is cleared only by the clear_flag callback of a
\* worker that is past its finally clause; a request made while the flag is
\* true is turned away and starts nothing
C29_FlagProtocol ==
    /\ [][upc = "idle" /\ upc' = "confirm" => ~is_processing]_vars
    /\ [][Len(workers') > Len(workers) =>
              /\ upc = "start"
              /\ is_processing /\ is_processing'
              /\ C29_Generating = {}]_vars
    /\ [](upc = "start" => is_processing)
    /\ [][is_processing /\ ~is_processing' =>
              /\ callbacks # <<>>
              /\ Head(callbacks).what = "clear_flag"
              /\ workers[Head(callbacks).by].pc \in {"last_log", "ended"}
              /\ workers' = workers]_vars
    /\ [][requests' > requests /\ is_processing =>
              /\ workers' = workers
              /\ upc' = "idle"
              /\ is_processing']_vars

\* C29 as stated: at most one generation worker is active at any time:
\* _execute_generation starts a worker thread only while is_processing is
\* false, sets is_processing to true on the UI thread before the thread
\* starts, and the flag is cleared only by a callback scheduled by the
\* finishing worker; a start request that arrives while the flag is true,
\* including one arriving after the UI was re-enabled but before the flag
\* was cleared, starts no second worker.
C29_OneWorkerThread ==
    /\ [](Cardinality(C29_Alive) <= 1)
    /\ C29_FlagProtocol

\* C29, amended: at most one worker is at its generation at any time, a
\* worker being at its generation until its finally clause has given the
\* two callbacks to the event loop, and is_processing is true as long as
\* one is; the thread of a finishing worker may still be at its last log
\* line when the next worker is started.  The flag is handled as stated.
C29_OneGeneratingWorker ==
    /\ [](Cardinality(C29_Generating) <= 1)
    /\ [](C29_Generating # {} => is_processing)
    /\ C29_FlagProtocol

\* a request made after the widgets were enabled again and before the flag
\* was cleared: it was turned away, and there is one worker still
C29_Witness ==
    /\ refused = 1
    /\ requests = 2
    /\ ui_enabled
    /\ is_processing
    /\ upc = "idle"
    /\ Len(workers) = 1
    /\ callbacks # <<>>
    /\ Head(callbacks).what = "clear_flag"

\* the second worker started while the thread of the first is at its last
\* log line
C29_WitnessTwoThreads ==
    /\ Len(workers) = 2
    /\ workers[1].pc = "last_log"
    /\ workers[2].pc = "run"
    /\ is_processing

----------------------------------------------------------------------------
(* The window is given back after every worker (SpecGuiFair) *)

\* C30: whenever a generation worker ends, whether the run succeeded,
\* reported render errors or raised an unexpected exception (for example an
\* undecodable text file), the UI is eventually re-enabled and is_processing
\* eventually returns to false, provided the UI event loop keeps running its
\* scheduled callbacks; a later generation request can then start a new
\* worker.
C30_WorkerEndRestoresUi ==
    \A w \in 1..MaxRequests :
        \A outcome \in {"success", "errors", "exception"} :
            (w <= Len(workers) /\ workers[w] = Worker("ended", outcome))
                ~> (ui_enabled /\ ~is_processing)

\* a worker that ended on an exception, the window given back, and a later
\* request that started a new worker
C30_Witness ==
    /\ Len(workers) = 2
    /\ workers[1] = Worker("ended", "exception")
    /\ workers[2].pc = "begin"
    /\ requests = 2
    /\ refused = 0

\* the window given back after a worker that ended on an exception
C30_WitnessRestored ==
    /\ Len(workers) = 1
    /\ workers[1] = Worker("ended", "exception")
    /\ ui_enabled
    /\ ~is_processing
    /\ callbacks = <<>>

============================================================================
